---- MODULE Spec2Model ----
(***************************************************************************)
(* Verification model of the IR utilities and the emitter registry of the  *)
(* tangrams CLI (packages/cli/src/generators).                             *)
(*                                                                         *)
(*   SortSpec / FairSortSpec  topologicalSortSchemas, executed step by     *)
(*                            step with an explicit call stack             *)
(*   DepsSpec                 extractDependencies and createNamedSchema    *)
(*   NameSpec                 the naming utilities                         *)
(*   RegistrySpec             the emitter registry                         *)
(*                                                                         *)
(* Representation.  A NamedSchemaIR is seen by the sort only through its   *)
(* name and its dependencies; dependencies is a JavaScript Set, which      *)
(* iterates in insertion order, so it is a sequence without repetitions.   *)
(***************************************************************************)
EXTENDS Integers, Sequences, FiniteSets, TLC

VARIABLES
    schemas,     \* topologicalSortSchemas: the argument
    schemaMap,   \* Map<string, NamedSchemaIR>, as a function on its keys
    visited,     \* Set<string>
    visiting,    \* Set<string>
    result,      \* NamedSchemaIR[]
    stack,       \* activations of visit(): <<[name, k]>>, innermost last
    i,           \* position of the final for-of loop over schemas
    pc,          \* the control position of the operation under way
    argName,     \* createNamedSchema: name
    argSchema,   \* createNamedSchema, extractDependencies: schema
    argCategory, \* createNamedSchema: category
    deps,        \* extractDependencies: the Set deps, in insertion order
    named,       \* createNamedSchema: the NamedSchemaIR returned
    wrapped,     \* makeNullable, makeNullish: the SchemaIR returned
    str,         \* naming utilities: the argument, a sequence of characters
    out,         \* naming utilities: the value returned
    library,     \* getEmitter, isValidatorLibrary: the argument
    outcome,     \* getEmitter, isValidatorLibrary: the value returned or the error thrown
    queryParams, \* OpenAPI analysis: the names of the ParameterObjects, in order
    capabilities, \* OpenAPI analysis: the value returned
    fieldArgs,   \* GraphQL analysis: the arguments of the query field, in order
    fieldCapabilities, \* GraphQL analysis: the value returned
    gqlSchema,   \* discoverGraphQLEntities: schema.schema (query type and type map)
    documents,   \* discoverGraphQLEntities: schema.documents
    overrides,   \* discoverGraphQLEntities: overrides
    listQueries, \* discoverGraphQLEntities: the list queries found
    lq,          \* discoverGraphQLEntities: position of the loop over listQueries
    entities,    \* discoverGraphQLEntities: entities
    warnings,    \* discoverGraphQLEntities: warnings
    emitLibrary, \* emit: the library of the emitter called
    declarations, \* the parsers' input: the declarations of one source, in order
    emitSchemas, \* emit: schemas, the NamedSchemaIR[] the parsers produced
    emitResult,  \* emit: the EmitterResult returned
    configFile,  \* generate command: what loadTangenConfig finds
    genSources,  \* generate: config.sources
    genIndex,    \* generate: position of the loop over the sources
    written,     \* generate: the sources whose files were written, in order
    surfaced,    \* generate: the warnings and errors reported per source
    logs,        \* generate command: the calls of consola
    exitCode,    \* generate command: the argument of process.exit
    initArgs,    \* init command: args (force, source)
    configOnDisk, \* init command: tangen.config.ts in the working directory
    initLogs,    \* init command: the calls of consola
    initExitCode, \* init command: the argument of process.exit
    paramName,   \* extractRestSimpleFilter: paramName
    extracted    \* extractRestSimpleFilter: the value returned

sortVars == <<schemas, schemaMap, visited, visiting, result, stack, i>>

depsVars == <<argName, argSchema, argCategory, deps, named, wrapped>>

nameVars == <<str, out>>

registryVars == <<library, outcome>>

openapiVars == <<queryParams, capabilities>>

graphqlVars == <<fieldArgs, fieldCapabilities>>

discoveryVars == <<gqlSchema, documents, overrides, listQueries, lq, entities, warnings>>

emitVars == <<emitLibrary, declarations, emitSchemas, emitResult>>

generateVars == <<configFile, genSources, genIndex, written, surfaced, logs, exitCode>>

initVars == <<initArgs, configOnDisk, initLogs, initExitCode>>

restVars == <<paramName, extracted>>

vars == <<sortVars, depsVars, nameVars, registryVars, openapiVars, graphqlVars, discoveryVars, emitVars, generateVars, initVars, restVars, pc>>

\* What the operations of one area leave alone.
exceptSort == <<depsVars, nameVars, registryVars, openapiVars, graphqlVars, discoveryVars, emitVars, generateVars, initVars, restVars>>

exceptDeps == <<sortVars, nameVars, registryVars, openapiVars, graphqlVars, discoveryVars, emitVars, generateVars, initVars, restVars>>

exceptNames == <<sortVars, depsVars, registryVars, openapiVars, graphqlVars, discoveryVars, emitVars, generateVars, initVars, restVars>>

exceptRegistry == <<sortVars, depsVars, nameVars, openapiVars, graphqlVars, discoveryVars, emitVars, generateVars, initVars, restVars>>

exceptOpenapi == <<sortVars, depsVars, nameVars, registryVars, graphqlVars, discoveryVars, emitVars, generateVars, initVars, restVars>>

exceptGraphql == <<sortVars, depsVars, nameVars, registryVars, openapiVars, discoveryVars, emitVars, generateVars, initVars, restVars>>

exceptDiscovery == <<sortVars, depsVars, nameVars, registryVars, openapiVars, graphqlVars, emitVars, generateVars, initVars, restVars>>

exceptEmit == <<sortVars, depsVars, nameVars, registryVars, openapiVars, graphqlVars, discoveryVars, generateVars, initVars, restVars>>

exceptGenerate == <<sortVars, depsVars, nameVars, registryVars, openapiVars, graphqlVars, discoveryVars, emitVars, initVars, restVars>>

exceptInit == <<sortVars, depsVars, nameVars, registryVars, openapiVars, graphqlVars, discoveryVars, emitVars, generateVars, restVars>>

exceptRest == <<sortVars, depsVars, nameVars, registryVars, openapiVars, graphqlVars, discoveryVars, emitVars, generateVars, initVars>>

\* The value of what an operation does not use.
Unused == "unused"

SortIdle ==
    /\ schemas = Unused /\ schemaMap = Unused /\ visited = Unused
    /\ visiting = Unused /\ result = Unused /\ stack = Unused /\ i = Unused

DepsIdle ==
    /\ argName = Unused /\ argSchema = Unused /\ argCategory = Unused
    /\ deps = Unused /\ named = Unused /\ wrapped = Unused

NameIdle == str = Unused /\ out = Unused

RegistryIdle == library = Unused /\ outcome = Unused

OpenapiIdle == queryParams = Unused /\ capabilities = Unused

GraphqlIdle == fieldArgs = Unused /\ fieldCapabilities = Unused

DiscoveryIdle ==
    /\ gqlSchema = Unused /\ documents = Unused /\ overrides = Unused
    /\ listQueries = Unused /\ lq = Unused /\ entities = Unused /\ warnings = Unused

EmitIdle ==
    /\ emitLibrary = Unused /\ declarations = Unused
    /\ emitSchemas = Unused /\ emitResult = Unused

GenerateIdle ==
    /\ configFile = Unused /\ genSources = Unused /\ genIndex = Unused
    /\ written = Unused /\ surfaced = Unused /\ logs = Unused /\ exitCode = Unused

InitIdle ==
    /\ initArgs = Unused /\ configOnDisk = Unused
    /\ initLogs = Unused /\ initExitCode = Unused

RestIdle == paramName = Unused /\ extracted = Unused

\* Every area but the named one is out of use.
IdleExcept(area) ==
    /\ IF area = "sort" THEN TRUE ELSE SortIdle
    /\ IF area = "deps" THEN TRUE ELSE DepsIdle
    /\ IF area = "names" THEN TRUE ELSE NameIdle
    /\ IF area = "registry" THEN TRUE ELSE RegistryIdle
    /\ IF area = "openapi" THEN TRUE ELSE OpenapiIdle
    /\ IF area = "graphql" THEN TRUE ELSE GraphqlIdle
    /\ IF area = "discovery" THEN TRUE ELSE DiscoveryIdle
    /\ IF area = "emit" THEN TRUE ELSE EmitIdle
    /\ IF area = "generate" THEN TRUE ELSE GenerateIdle
    /\ IF area = "init" THEN TRUE ELSE InitIdle
    /\ IF area = "rest" THEN TRUE ELSE RestIdle

(***************************************************************************)
(* Bounds                                                                  *)
(***************************************************************************)
MaxSchemas == 3      \* longest input list
MaxEdges == 3        \* most dependency names in one input list, in total
MaxNodes == 3        \* most nodes in one SchemaIR tree
MaxLen == 4          \* longest argument of a naming utility
StackLimit == 6      \* depth at which the engine's call stack is exhausted

Names == {"A", "B", "C"}

Min(a, b) == IF a < b THEN a ELSE b

Range(s) == {s[k] : k \in 1..Len(s)}

\* The sequences of k pairwise distinct names.
DepSeqs(k) == {d \in [1..k -> Names] : \A p, q \in 1..k : p # q => d[p] # d[q]}

\* Every entry: a name and a dependency set in some insertion order.
Entries ==
    {[name |-> nm, dependencies |-> d] :
        nm \in Names, d \in UNION {DepSeqs(k) : k \in 0..Cardinality(Names)}}

\* The number of dependency names carried by the entries list[k..].
RECURSIVE Edges(_, _)
Edges(list, k) ==
    IF k > Len(list) THEN 0
    ELSE Len(list[k].dependencies) + Edges(list, k + 1)

\* The lists of n entries that carry at most MaxEdges dependency names.
SchemaLists(n) == {list \in [1..n -> Entries] : Edges(list, 1) <= MaxEdges}

(***************************************************************************)
(* topologicalSortSchemas                                                  *)
(***************************************************************************)

\* for (const schema of schemas) schemaMap.set(schema.name, schema):
\* a later entry replaces an earlier one of the same name.
RECURSIVE BuildSchemaMap(_, _, _), BuildSchemaMap_FirstWins(_, _, _)

\* The map in which the first entry of a name stays.
BuildSchemaMap_FirstWins(list, k, map) ==
    IF k > Len(list) THEN map
    ELSE BuildSchemaMap_FirstWins(list, k + 1,
            [n \in DOMAIN map \cup {list[k].name} |->
                IF n \in DOMAIN map THEN map[n] ELSE list[k]])

BuildSchemaMap(list, k, map) ==
    IF k > Len(list) THEN map
    ELSE BuildSchemaMap(list, k + 1,
            [n \in DOMAIN map \cup {list[k].name} |->
                IF n = list[k].name THEN list[k] ELSE map[n]])

EmptyMap == [n \in {} |-> n]

\* schemaMap.has(dep)
SchemaMapHas(map, dep) == dep \in DOMAIN map

\* visit(name) without the test of the in-progress set.
VisitReturnsEarly_NoVisiting(name) ==
    \/ name \in visited
    \/ ~SchemaMapHas(schemaMap, name)

\* visit(name) without the test of the done set.
VisitReturnsEarly_NoVisited(name) ==
    \/ name \in visiting
    \/ ~SchemaMapHas(schemaMap, name)

\* The three early returns of visit(name).
VisitReturnsEarly(name) ==
    \/ name \in visited
    \/ name \in visiting
    \/ ~SchemaMapHas(schemaMap, name)

\* A call visit(name) made while the stack is stk: either it returns at once
\* or it marks name as in progress and opens an activation.
CallVisit(name, stk) ==
    IF VisitReturnsEarly(name)
    THEN /\ stack' = stk
         /\ UNCHANGED <<visiting, pc>>
    ELSE IF Len(stk) >= StackLimit
    THEN /\ pc' = "RangeError"
         /\ stack' = stk
         /\ UNCHANGED visiting
    ELSE /\ visiting' = visiting \cup {name}
         /\ stack' = Append(stk, [name |-> name, k |-> 1])
         /\ UNCHANGED pc

SortInit ==
    /\ \E n \in 0..MaxSchemas : schemas \in SchemaLists(n)
    /\ schemaMap = EmptyMap
    /\ visited = {}
    /\ visiting = {}
    /\ result = <<>>
    /\ stack = <<>>
    /\ i = 1
    /\ pc = "start"
    /\ IdleExcept("sort")

\* Lines 211-219: the locals and the lookup map.
BuildMap ==
    /\ pc = "start"
    /\ schemaMap' = BuildSchemaMap(schemas, 1, EmptyMap)
    /\ pc' = "loop"
    /\ UNCHANGED <<exceptSort, schemas, visited, visiting, result, stack, i>>

\* Lines 246-248: one iteration of the loop over the input.
LoopVisit ==
    /\ pc = "loop"
    /\ stack = <<>>
    /\ i <= Len(schemas)
    /\ i' = i + 1
    /\ CallVisit(schemas[i].name, stack)
    /\ UNCHANGED <<exceptSort, schemas, schemaMap, visited, result>>

\* The loop over schema.dependencies without the recursive call.
VisitDep_NoRecursion ==
    /\ pc = "loop"
    /\ stack # <<>>
    /\ LET top == stack[Len(stack)]
           dependencies == schemaMap[top.name].dependencies
       IN /\ top.k <= Len(dependencies)
          /\ stack' = [stack EXCEPT ![Len(stack)].k = top.k + 1]
    /\ UNCHANGED <<exceptSort, schemas, schemaMap, visited, visiting, result, i, pc>>

\* Lines 234-238: one iteration of the loop over schema.dependencies.
VisitDep ==
    /\ pc = "loop"
    /\ stack # <<>>
    /\ LET top == stack[Len(stack)]
           dependencies == schemaMap[top.name].dependencies
           stk == [stack EXCEPT ![Len(stack)].k = top.k + 1]
       IN /\ top.k <= Len(dependencies)
          /\ IF SchemaMapHas(schemaMap, dependencies[top.k])
             THEN CallVisit(dependencies[top.k], stk)
             ELSE /\ stack' = stk
                  /\ UNCHANGED <<visiting, pc>>
    /\ UNCHANGED <<exceptSort, schemas, schemaMap, visited, result, i>>

\* The end of visit() with result.unshift(schema) in place of result.push.
VisitReturn_Unshift ==
    /\ pc = "loop"
    /\ stack # <<>>
    /\ LET top == stack[Len(stack)]
           dependencies == schemaMap[top.name].dependencies
       IN /\ top.k > Len(dependencies)
          /\ visiting' = visiting \ {top.name}
          /\ visited' = visited \cup {top.name}
          /\ result' = <<schemaMap[top.name]>> \o result
          /\ stack' = SubSeq(stack, 1, Len(stack) - 1)
    /\ UNCHANGED <<exceptSort, schemas, schemaMap, i, pc>>

\* Lines 240-242: the dependencies are exhausted, the entry is emitted.
VisitReturn ==
    /\ pc = "loop"
    /\ stack # <<>>
    /\ LET top == stack[Len(stack)]
           dependencies == schemaMap[top.name].dependencies
       IN /\ top.k > Len(dependencies)
          /\ visiting' = visiting \ {top.name}
          /\ visited' = visited \cup {top.name}
          /\ result' = Append(result, schemaMap[top.name])
          /\ stack' = SubSeq(stack, 1, Len(stack) - 1)
    /\ UNCHANGED <<exceptSort, schemas, schemaMap, i, pc>>

\* Line 250: return result.
SortReturn ==
    /\ pc = "loop"
    /\ stack = <<>>
    /\ i > Len(schemas)
    /\ pc' = "done"
    /\ UNCHANGED <<exceptSort, schemas, schemaMap, visited, visiting, result, stack, i>>

SortNext == BuildMap \/ LoopVisit \/ VisitDep \/ VisitReturn \/ SortReturn

SortSpec == SortInit /\ [][SortNext]_vars

\* The sort is one synchronous call: once entered it runs until it returns.
FairSortSpec == SortSpec /\ WF_vars(SortNext)

(***************************************************************************)
(* SchemaIR.  A node is a record with the fields of its kind.  The         *)
(* properties of an object are the sequence of its entries in the order    *)
(* Object.values yields them; additionalProperties carries its typeof:     *)
(* "undefined", "boolean" (with the value) or "object" (with the schema).  *)
(***************************************************************************)
Leaves ==
    {[kind |-> "ref", name |-> n] : n \in {"A", "B"}}
        \cup {[kind |-> "string"],
              [kind |-> "enum", values |-> <<"A">>],
              [kind |-> "literal", value |-> "A"],
              [kind |-> "raw", code |-> "A"]}

\* The shapes of a node: a leaf, or a kind with the number of its children.
\* An object has props property schemas and, when its additionalProperties
\* is a schema (ap.typeof = "object"), that schema as its last child.
AdditionalShapes ==
    {[typeof |-> "undefined"], [typeof |-> "object"]}
        \cup {[typeof |-> "boolean", bool |-> b] : b \in BOOLEAN}

Shapes ==
    {[node |-> l, arity |-> 0] : l \in Leaves}
        \cup {[node |-> [kind |-> "array"], arity |-> 1],
              [node |-> [kind |-> "record"], arity |-> 2]}
        \cup {[node |-> [kind |-> k], arity |-> n] :
                 k \in {"tuple", "union", "intersection"}, n \in 0..(MaxNodes - 1)}
        \cup {[node |-> [kind |-> "object", props |-> x[1], required |-> x[2], ap |-> x[3]],
               arity |-> x[1] + (IF x[3].typeof = "object" THEN 1 ELSE 0)] :
                 x \in {y \in (0..(MaxNodes - 1)) \X BOOLEAN \X AdditionalShapes :
                           y[1] > 0 \/ y[2]}}

\* A tree is written as the shapes of its nodes in prefix order; such a
\* sequence is one tree when every node but the first fills an open place
\* and no place stays open.
RECURSIVE OpenPlaces(_, _)
OpenPlaces(code, k) ==
    IF k = 0 THEN 1 ELSE OpenPlaces(code, k - 1) - 1 + code[k].arity

IsTreeCode(code) ==
    /\ \A k \in 1..(Len(code) - 1) : OpenPlaces(code, k) > 0
    /\ OpenPlaces(code, Len(code)) = 0

PropertyKeys == <<"id", "special-name", "p3", "p4">>

\* The object properties whose schemas are the trees of the sequence f.
PropertiesOf(f, req) ==
    [k \in 1..Len(f) |-> [key |-> PropertyKeys[k], schema |-> f[k], required |-> req]]

RECURSIVE TreeAt(_, _), TreesAt(_, _, _)

\* The n consecutive trees written from position pos on, with the position
\* after them.
TreesAt(code, pos, n) ==
    IF n = 0 THEN [trees |-> <<>>, next |-> pos]
    ELSE LET first == TreeAt(code, pos)
             rest == TreesAt(code, first.next, n - 1)
         IN [trees |-> <<first.tree>> \o rest.trees, next |-> rest.next]

\* The tree written from position pos on, with the position after it.
TreeAt(code, pos) ==
    LET shape == code[pos]
        node == shape.node
        sub == TreesAt(code, pos + 1, shape.arity)
        tree ==
            CASE node.kind = "array" -> [kind |-> "array", items |-> sub.trees[1]]
              [] node.kind = "record" ->
                    [kind |-> "record", keyType |-> sub.trees[1], valueType |-> sub.trees[2]]
              [] node.kind = "tuple" -> [kind |-> "tuple", items |-> sub.trees]
              [] node.kind \in {"union", "intersection"} ->
                    [kind |-> node.kind, members |-> sub.trees]
              [] node.kind = "object" ->
                    [kind |-> "object",
                     properties |-> PropertiesOf(SubSeq(sub.trees, 1, node.props), node.required),
                     additionalProperties |->
                        IF node.ap.typeof = "object"
                        THEN [typeof |-> "object", schema |-> sub.trees[shape.arity]]
                        ELSE node.ap]
              [] OTHER -> node
    IN [tree |-> tree, next |-> sub.next]

\* The SchemaIR trees of exactly n nodes, each written in prefix order.
TreeCodes(n) == {code \in [1..n -> Shapes] : IsTreeCode(code)}

Categories == {"undefined", "component"}

(***************************************************************************)
(* extractDependencies                                                     *)
(***************************************************************************)

\* deps.add(name): a Set keeps the first insertion only.
SetAdd(set, n) == IF n \in Range(set) THEN set ELSE Append(set, n)

\* deps.delete(name)
SetDelete(set, n) == SelectSeq(set, LAMBDA x : x # n)

RECURSIVE visit(_, _), visitEach(_, _, _), visitProperties(_, _, _)

\* for (const item of list) visit(item), from position k on.
visitEach(list, k, acc) ==
    IF k > Len(list) THEN acc
    ELSE visitEach(list, k + 1, visit(list[k], acc))

\* for (const prop of Object.values(s.properties)) visit(prop.schema)
visitProperties(props, k, acc) ==
    IF k > Len(props) THEN acc
    ELSE visitProperties(props, k + 1, visit(props[k].schema, acc))

\* visit() that forgets the additionalProperties of an object.
visit_NoAdditional(s, acc) ==
    CASE s.kind = "ref" -> SetAdd(acc, s.name)
      [] s.kind = "object" -> visitProperties(s.properties, 1, acc)
      [] s.kind = "array" -> visit(s.items, acc)
      [] s.kind = "tuple" -> visitEach(s.items, 1, acc)
      [] s.kind = "record" -> visit(s.valueType, visit(s.keyType, acc))
      [] s.kind \in {"union", "intersection"} -> visitEach(s.members, 1, acc)
      [] OTHER -> acc

\* The inner function visit(s): acc is deps before the call, the value is
\* deps after it.
visit(s, acc) ==
    CASE s.kind = "ref" -> SetAdd(acc, s.name)
      [] s.kind = "object" ->
            LET afterProps == visitProperties(s.properties, 1, acc)
            IN IF s.additionalProperties.typeof = "object"
               THEN visit(s.additionalProperties.schema, afterProps)
               ELSE afterProps
      [] s.kind = "array" -> visit(s.items, acc)
      [] s.kind = "tuple" -> visitEach(s.items, 1, acc)
      [] s.kind = "record" -> visit(s.valueType, visit(s.keyType, acc))
      [] s.kind \in {"union", "intersection"} -> visitEach(s.members, 1, acc)
      [] OTHER -> acc

extractDependencies(schema) == visit(schema, <<>>)

\* createNamedSchema that keeps the self-reference.
createNamedSchema_NoDelete(nm, schema, category) ==
    [name |-> nm,
     schema |-> schema,
     dependencies |-> extractDependencies(schema),
     category |-> category]

createNamedSchema(nm, schema, category) ==
    [name |-> nm,
     schema |-> schema,
     dependencies |-> SetDelete(extractDependencies(schema), nm),
     category |-> category]

\* makeNullable that loses the schema it wraps.
makeNullable_NullOnly(schema) ==
    [kind |-> "union", members |-> <<[kind |-> "null"]>>]

makeNullable(schema) ==
    [kind |-> "union", members |-> <<schema, [kind |-> "null"]>>]

makeNullish(schema) ==
    [kind |-> "union",
     members |-> <<schema, [kind |-> "null"], [kind |-> "undefined"]>>]

DepsInit ==
    /\ argName \in Names
    /\ \E n \in 1..MaxNodes : \E code \in TreeCodes(n) : argSchema = TreeAt(code, 1).tree
    /\ argCategory \in Categories
    /\ deps = <<>>
    /\ named = Unused
    /\ wrapped = Unused
    /\ pc = "ready"
    /\ IdleExcept("deps")

\* A caller extracts the dependencies of a schema.
ExtractDependencies ==
    /\ pc = "ready"
    /\ deps' = extractDependencies(argSchema)
    /\ pc' = "extracted"
    /\ UNCHANGED <<exceptDeps, argName, argSchema, argCategory, named, wrapped>>

\* A parser creates the named entry of a schema.
CreateNamedSchema ==
    /\ pc = "ready"
    /\ named' = createNamedSchema(argName, argSchema, argCategory)
    /\ pc' = "created"
    /\ UNCHANGED <<exceptDeps, argName, argSchema, argCategory, deps, wrapped>>

\* A parser wraps a nullable schema and extracts the dependencies of the
\* wrapper.
MakeNullable ==
    /\ pc = "ready"
    /\ wrapped' = makeNullable(argSchema)
    /\ deps' = extractDependencies(makeNullable(argSchema))
    /\ pc' = "nullable"
    /\ UNCHANGED <<exceptDeps, argName, argSchema, argCategory, named>>

\* A parser wraps an optional nullable schema and extracts the dependencies
\* of the wrapper.
MakeNullish ==
    /\ pc = "ready"
    /\ wrapped' = makeNullish(argSchema)
    /\ deps' = extractDependencies(makeNullish(argSchema))
    /\ pc' = "nullish"
    /\ UNCHANGED <<exceptDeps, argName, argSchema, argCategory, named>>

DepsNext == ExtractDependencies \/ CreateNamedSchema \/ MakeNullable \/ MakeNullish

DepsSpec == DepsInit /\ [][DepsNext]_vars

(***************************************************************************)
(* Naming utilities.  A string is the sequence of its characters, each a   *)
(* one-character string.                                                   *)
(***************************************************************************)
LowerCase == <<"a", "b", "c", "d", "e", "f", "g", "h", "i", "j", "k", "l", "m",
               "n", "o", "p", "q", "r", "s", "t", "u", "v", "w", "x", "y", "z">>

UpperCase == <<"A", "B", "C", "D", "E", "F", "G", "H", "I", "J", "K", "L", "M",
               "N", "O", "P", "Q", "R", "S", "T", "U", "V", "W", "X", "Y", "Z">>

Digits == {"0", "1", "2", "3", "4", "5", "6", "7", "8", "9"}

\* The characters the regular expression atom . does not match.
LineTerminators == {"\n", "\r"}

\* The characters the arguments are made of.
Alphabet == {"a", "B", "1", "-", "_", "$", " ", "\"", "\\", "\n"}

Strings == UNION {[1..n -> Alphabet] : n \in 0..MaxLen}

\* String.prototype.toUpperCase and toLowerCase, on one character.
toUpperCase(c) ==
    IF \E k \in 1..26 : LowerCase[k] = c
    THEN UpperCase[CHOOSE k \in 1..26 : LowerCase[k] = c]
    ELSE c

toLowerCase(c) ==
    IF \E k \in 1..26 : UpperCase[k] = c
    THEN LowerCase[CHOOSE k \in 1..26 : UpperCase[k] = c]
    ELSE c

\* s.charAt(0).toLowerCase() + s.slice(1)
LowerFirst(s) ==
    IF s = <<>> THEN <<>> ELSE <<toLowerCase(s[1])>> \o SubSeq(s, 2, Len(s))

SchemaSuffix == <<"S", "c", "h", "e", "m", "a">>

\* toSchemaName without the lowering of the first character.
toSchemaName_NoLower(typeName) == typeName \o SchemaSuffix

toSchemaName(typeName) == LowerFirst(typeName) \o SchemaSuffix

RECURSIVE ReplaceSeparators(_, _), ReplaceSeparators_UnderscoreOnly(_, _)

\* The first replacement with the pattern /_(.)/g.
ReplaceSeparators_UnderscoreOnly(s, k) ==
    IF k > Len(s) THEN <<>>
    ELSE IF /\ s[k] = "_"
            /\ k < Len(s)
            /\ s[k + 1] \notin LineTerminators
         THEN <<toUpperCase(s[k + 1])>> \o ReplaceSeparators_UnderscoreOnly(s, k + 2)
         ELSE <<s[k]>> \o ReplaceSeparators_UnderscoreOnly(s, k + 1)

\* .replace(/[-_](.)/g, (_, c) => c.toUpperCase()), from position k on:
\* the matches are found left to right and do not overlap.
ReplaceSeparators(s, k) ==
    IF k > Len(s) THEN <<>>
    ELSE IF /\ s[k] \in {"-", "_"}
            /\ k < Len(s)
            /\ s[k + 1] \notin LineTerminators
         THEN <<toUpperCase(s[k + 1])>> \o ReplaceSeparators(s, k + 2)
         ELSE <<s[k]>> \o ReplaceSeparators(s, k + 1)

\* .replace(/^(.)/, (_, c) => c.toUpperCase())
ReplaceFirst(s) ==
    IF s # <<>> /\ s[1] \notin LineTerminators
    THEN <<toUpperCase(s[1])>> \o SubSeq(s, 2, Len(s))
    ELSE s

toPascalCase(s) == ReplaceFirst(ReplaceSeparators(s, 1))

\* toCamelCase without the conversion to Pascal case.
toCamelCase_LowerFirstOnly(s) == LowerFirst(s)

toCamelCase(s) == LowerFirst(toPascalCase(s))

toQueryVariablesSchemaName(operationName) ==
    toCamelCase(operationName) \o <<"Q", "u", "e", "r", "y", "V", "a", "r", "i", "a", "b", "l", "e", "s", "S", "c", "h", "e", "m", "a">>

toMutationVariablesSchemaName(operationName) ==
    toCamelCase(operationName) \o <<"M", "u", "t", "a", "t", "i", "o", "n", "V", "a", "r", "i", "a", "b", "l", "e", "s", "S", "c", "h", "e", "m", "a">>

toQueryResponseSchemaName(operationName) ==
    toCamelCase(operationName) \o <<"Q", "u", "e", "r", "y", "S", "c", "h", "e", "m", "a">>

toMutationResponseSchemaName(operationName) ==
    toCamelCase(operationName) \o <<"M", "u", "t", "a", "t", "i", "o", "n", "S", "c", "h", "e", "m", "a">>

toFragmentSchemaName(fragmentName) ==
    toCamelCase(fragmentName) \o <<"F", "r", "a", "g", "m", "e", "n", "t", "S", "c", "h", "e", "m", "a">>

toQueryVariablesTypeName(operationName) ==
    toPascalCase(operationName) \o <<"Q", "u", "e", "r", "y", "V", "a", "r", "i", "a", "b", "l", "e", "s">>

toMutationVariablesTypeName(operationName) ==
    toPascalCase(operationName) \o <<"M", "u", "t", "a", "t", "i", "o", "n", "V", "a", "r", "i", "a", "b", "l", "e", "s">>

toQueryResponseTypeName(operationName) ==
    toPascalCase(operationName) \o <<"Q", "u", "e", "r", "y">>

toMutationResponseTypeName(operationName) ==
    toPascalCase(operationName) \o <<"M", "u", "t", "a", "t", "i", "o", "n">>

toFragmentTypeName(fragmentName) ==
    toPascalCase(fragmentName) \o <<"F", "r", "a", "g", "m", "e", "n", "t">>

IdentifierStart ==
    Range(LowerCase) \cup Range(UpperCase) \cup {"_", "$"}

IdentifierPart == IdentifierStart \cup Digits

\* /^[a-zA-Z_$][a-zA-Z0-9_$]*$/.test(s)
isValidIdentifier(s) ==
    /\ s # <<>>
    /\ s[1] \in IdentifierStart
    /\ \A k \in 2..Len(s) : s[k] \in IdentifierPart

getSafePropertyName(s) ==
    IF isValidIdentifier(s) THEN s ELSE <<"\"">> \o s \o <<"\"">>

NameInit ==
    /\ str \in Strings
    /\ out = Unused
    /\ pc = "ready"
    /\ IdleExcept("names")

ToPascalCase ==
    /\ pc = "ready"
    /\ out' = toPascalCase(str)
    /\ pc' = "pascal"
    /\ UNCHANGED <<exceptNames, str>>

\* The name of a type is turned into the name of its schema variable.
ToSchemaName ==
    /\ pc = "ready"
    /\ out' = toSchemaName(str)
    /\ pc' = "schemaName"
    /\ UNCHANGED <<exceptNames, str>>

\* toSchemaName(toPascalCase(str)): the second of the two calls.
ToSchemaNameOfPascal ==
    /\ pc = "pascal"
    /\ out' = toSchemaName(out)
    /\ pc' = "pascalSchemaName"
    /\ UNCHANGED <<exceptNames, str>>

GetSafePropertyName ==
    /\ pc = "ready"
    /\ out' = getSafePropertyName(str)
    /\ pc' = "safe"
    /\ UNCHANGED <<exceptNames, str>>

ToQueryVariablesTypeName ==
    /\ pc = "ready"
    /\ out' = toQueryVariablesTypeName(str)
    /\ pc' = "queryVariablesTypeName"
    /\ UNCHANGED <<exceptNames, str>>

ToMutationVariablesTypeName ==
    /\ pc = "ready"
    /\ out' = toMutationVariablesTypeName(str)
    /\ pc' = "mutationVariablesTypeName"
    /\ UNCHANGED <<exceptNames, str>>

ToQueryResponseTypeName ==
    /\ pc = "ready"
    /\ out' = toQueryResponseTypeName(str)
    /\ pc' = "queryResponseTypeName"
    /\ UNCHANGED <<exceptNames, str>>

ToMutationResponseTypeName ==
    /\ pc = "ready"
    /\ out' = toMutationResponseTypeName(str)
    /\ pc' = "mutationResponseTypeName"
    /\ UNCHANGED <<exceptNames, str>>

ToFragmentTypeName ==
    /\ pc = "ready"
    /\ out' = toFragmentTypeName(str)
    /\ pc' = "fragmentTypeName"
    /\ UNCHANGED <<exceptNames, str>>

TypeNamePcs ==
    {"queryVariablesTypeName",
     "mutationVariablesTypeName",
     "queryResponseTypeName",
     "mutationResponseTypeName",
     "fragmentTypeName"}

\* toSchemaName(typeName) for a type name of one of the GraphQL families.
ToSchemaNameOfTypeName ==
    /\ pc \in TypeNamePcs
    /\ out' = toSchemaName(out)
    /\ pc' = CASE pc = "queryVariablesTypeName" -> "schemaOfQueryVariablesTypeName"
            [] pc = "mutationVariablesTypeName" -> "schemaOfMutationVariablesTypeName"
            [] pc = "queryResponseTypeName" -> "schemaOfQueryResponseTypeName"
            [] pc = "mutationResponseTypeName" -> "schemaOfMutationResponseTypeName"
            [] pc = "fragmentTypeName" -> "schemaOfFragmentTypeName"
    /\ UNCHANGED <<exceptNames, str>>

NameNext ==
    \/ ToPascalCase \/ ToSchemaName \/ ToSchemaNameOfPascal \/ GetSafePropertyName
    \/ ToQueryVariablesTypeName \/ ToMutationVariablesTypeName \/ ToQueryResponseTypeName
    \/ ToMutationResponseTypeName \/ ToFragmentTypeName
    \/ ToSchemaNameOfTypeName

NameSpec == NameInit /\ [][NameNext]_vars

(***************************************************************************)
(* Emitter registry.  emitters is an object literal: a lookup by a key it  *)
(* does not own continues in Object.prototype.  A value is a record with   *)
(* its type: "undefined", "emitter" (with the library field of the         *)
(* emitter) or "inherited" (a member of Object.prototype, with its key).   *)
(***************************************************************************)
zodEmitter == [type |-> "emitter", library |-> "zod"]
valibotEmitter == [type |-> "emitter", library |-> "valibot"]
arktypeEmitter == [type |-> "emitter", library |-> "arktype"]
effectEmitter == [type |-> "emitter", library |-> "effect"]

\* Object.keys(emitters), in insertion order, and the values.
EmitterKeys == <<"zod", "valibot", "arktype", "effect">>

emitters ==
    [k \in Range(EmitterKeys) |->
        CASE k = "zod" -> zodEmitter
          [] k = "valibot" -> valibotEmitter
          [] k = "arktype" -> arktypeEmitter
          [] k = "effect" -> effectEmitter]

ObjectPrototypeKeys ==
    {"constructor", "hasOwnProperty", "isPrototypeOf", "propertyIsEnumerable",
     "toLocaleString", "toString", "valueOf", "__proto__",
     "__defineGetter__", "__defineSetter__", "__lookupGetter__", "__lookupSetter__"}

Undefined == [type |-> "undefined"]

\* obj[key] for an object literal obj: own properties first, then the
\* prototype chain.
PropertyGet(obj, key) ==
    IF key \in DOMAIN obj THEN obj[key]
    ELSE IF key \in ObjectPrototypeKeys THEN [type |-> "inherited", key |-> key]
    ELSE Undefined

\* !value: of the values above only undefined is falsy.
Falsy(value) == value = Undefined

RECURSIVE Join(_, _, _)

\* list.join(sep), from position k on.
Join(list, sep, k) ==
    IF k > Len(list) THEN ""
    ELSE IF k = Len(list) THEN list[k]
    ELSE list[k] \o sep \o Join(list, sep, k + 1)

getEmitter(lib) ==
    LET emitter == PropertyGet(emitters, lib)
    IN IF Falsy(emitter)
       THEN [threw |-> TRUE,
             message |-> "Unknown validator library: " \o lib
                            \o ". Supported libraries: " \o Join(EmitterKeys, ", ", 1)]
       ELSE [threw |-> FALSE, value |-> emitter]

\* isValidatorLibrary that does not know the last library registered.
isValidatorLibrary_NoEffect(value) ==
    \/ value = "zod"
    \/ value = "valibot"
    \/ value = "arktype"

isValidatorLibrary(value) ==
    \/ value = "zod"
    \/ value = "valibot"
    \/ value = "arktype"
    \/ value = "effect"

supportedValidators == <<"zod", "valibot", "arktype", "effect">>

\* The identifiers asked for: the supported ones, their spellings in other
\* cases and with blanks, other validator libraries, and the property names
\* every object has.
LibraryIds ==
    Range(EmitterKeys) \cup ObjectPrototypeKeys
        \cup {"Zod", "ZOD", "Valibot", "ArkType", "Effect", " zod", "zod ", "effect-schema",
              "", "unknown", "yup", "joi", "ajv", "superstruct", "io-ts", "typebox",
              "runtypes", "valita", "myzod", "typia", "decoders", "vine", "zod/mini",
              "zod/v4", "class-validator", "json-schema", "undefined", "null", "0",
              "length", "name", "prototype", "library", "emit"}

RegistryInit ==
    /\ library \in LibraryIds
    /\ outcome = Unused
    /\ pc = "ready"
    /\ IdleExcept("registry")

GetEmitter ==
    /\ pc = "ready"
    /\ outcome' = getEmitter(library)
    /\ pc' = "got"
    /\ UNCHANGED <<exceptRegistry, library>>

IsValidatorLibrary ==
    /\ pc = "ready"
    /\ outcome' = isValidatorLibrary(library)
    /\ pc' = "checked"
    /\ UNCHANGED <<exceptRegistry, library>>

RegistryNext == GetEmitter \/ IsValidatorLibrary

RegistrySpec == RegistryInit /\ [][RegistryNext]_vars

(***************************************************************************)
(* OpenAPI query parameter analysis (adapters/openapi/analysis).  A        *)
(* ParameterObject is seen through its name only.  An optional string of   *)
(* a result is Undefined or a record with its type and its value.          *)
(***************************************************************************)
StringValue(s) == [type |-> "string", value |-> s]

\* if (value), for a value that is a string, undefined or null.
Truthy(value) == value.type = "string" /\ value.value # <<>>

\* s.toLowerCase()
Lower(s) == [k \in 1..Len(s) |-> toLowerCase(s[k])]

\* s.startsWith(prefix)
StartsWith(s, prefix) ==
    /\ Len(s) >= Len(prefix)
    /\ SubSeq(s, 1, Len(prefix)) = prefix

\* s.endsWith(suffix)
EndsWith(s, suffix) ==
    /\ Len(s) >= Len(suffix)
    /\ SubSeq(s, Len(s) - Len(suffix) + 1, Len(s)) = suffix

restSimpleOperatorSuffixes ==
    <<<<"_", "e", "q">>, <<"_", "n", "e">>, <<"_", "l", "t">>,
      <<"_", "l", "t", "e">>, <<"_", "g", "t">>, <<"_", "g", "t", "e">>,
      <<"_", "i", "n">>, <<"_", "n", "i", "n">>, <<"_", "l", "i", "k", "e">>,
      <<"_", "c", "o", "n", "t", "a", "i", "n", "s">>>>

sortParamNames ==
    <<<<"s", "o", "r", "t">>, <<"s", "o", "r", "t", "B", "y">>,
      <<"s", "o", "r", "t", "_", "b", "y">>,
      <<"o", "r", "d", "e", "r", "B", "y">>,
      <<"o", "r", "d", "e", "r", "_", "b", "y">>,
      <<"$", "o", "r", "d", "e", "r", "b", "y">>,
      <<"o", "r", "d", "e", "r">>>>

limitParamNames ==
    <<<<"l", "i", "m", "i", "t">>, <<"$", "t", "o", "p">>,
      <<"p", "e", "r", "_", "p", "a", "g", "e">>,
      <<"p", "e", "r", "P", "a", "g", "e">>,
      <<"p", "a", "g", "e", "S", "i", "z", "e">>>>

offsetParamNames ==
    <<<<"o", "f", "f", "s", "e", "t">>, <<"$", "s", "k", "i", "p">>,
      <<"s", "t", "a", "r", "t">>>>

pageParamNames ==
    <<<<"p", "a", "g", "e">>,
      <<"p", "a", "g", "e", "N", "u", "m", "b", "e", "r">>,
      <<"p", "a", "g", "e", "_", "n", "u", "m", "b", "e", "r">>>>

cursorParamNames ==
    <<<<"c", "u", "r", "s", "o", "r">>, <<"a", "f", "t", "e", "r">>,
      <<"b", "e", "f", "o", "r", "e">>>>

\* The names findParam is given for perPageParam (the literal of line 248).
perPageParamNames ==
    <<<<"p", "e", "r", "_", "p", "a", "g", "e">>,
      <<"p", "e", "r", "P", "a", "g", "e">>,
      <<"p", "a", "g", "e", "S", "i", "z", "e">>,
      <<"l", "i", "m", "i", "t">>>>

\* new Set([...sortParamNames, ..., ...cursorParamNames])
knownNonFilterParams ==
    Range(sortParamNames) \cup Range(limitParamNames) \cup Range(offsetParamNames)
        \cup Range(pageParamNames) \cup Range(cursorParamNames)

analyzeFilterCapabilities(params) ==
    LET paramNames == params
        jsonApiFilterParams ==
            SelectSeq(paramNames,
                      LAMBDA name : /\ StartsWith(name, <<"f", "i", "l", "t", "e", "r", "[">>)
                                    /\ EndsWith(name, <<"]">>))
        restSimpleFilterParams ==
            SelectSeq(paramNames,
                      LAMBDA name : \E k \in DOMAIN restSimpleOperatorSuffixes :
                                        EndsWith(name, restSimpleOperatorSuffixes[k]))
        potentialFilterParams ==
            SelectSeq(paramNames,
                      LAMBDA name : /\ Lower(name) \notin knownNonFilterParams
                                    /\ ~StartsWith(name, <<"$">>)
                                    /\ "[" \notin Range(name))
    IN IF Len(jsonApiFilterParams) > 0
       THEN [hasFiltering |-> TRUE, filterStyle |-> "jsonapi",
             filterParams |-> jsonApiFilterParams]
       ELSE IF Len(restSimpleFilterParams) > 0
       THEN [hasFiltering |-> TRUE, filterStyle |-> "rest-simple",
             filterParams |-> restSimpleFilterParams]
       ELSE IF Len(potentialFilterParams) > 0
       THEN [hasFiltering |-> TRUE, filterStyle |-> "rest-simple",
             filterParams |-> potentialFilterParams]
       ELSE [hasFiltering |-> FALSE]

\* The position of the first name of list that some parameter carries, in
\* lower case on both sides; 0 when there is none.
FirstPresent(list, lowerCaseNames) ==
    LET present(k) == Lower(list[k]) \in Range(lowerCaseNames)
    IN IF \E k \in DOMAIN list : present(k)
       THEN CHOOSE k \in DOMAIN list : present(k) /\ \A j \in 1..(k - 1) : ~present(j)
       ELSE 0

\* queryParams.find((p) => p.name.toLowerCase() === lowerName).name, for a
\* lowerName some parameter has.
FindOriginal(params, lowerName) ==
    params[CHOOSE k \in DOMAIN params :
               /\ Lower(params[k]) = lowerName
               /\ \A j \in 1..(k - 1) : Lower(params[j]) # lowerName]

analyzeSortCapabilities(params) ==
    LET paramNames == [k \in DOMAIN params |-> Lower(params[k])]
        found == FirstPresent(sortParamNames, paramNames)
        originalParam == FindOriginal(params, Lower(sortParamNames[found]))
    IN IF found # 0
       THEN [hasSorting |-> TRUE,
             sortParam |-> IF originalParam # <<>> THEN originalParam
                           ELSE sortParamNames[found]]
       ELSE [hasSorting |-> FALSE]

\* new Map(queryParams.map((p) => [p.name.toLowerCase(), p.name])): of the
\* parameters with one lower-case name the last one stays.
OriginalNames(params) ==
    [lowerName \in {Lower(params[k]) : k \in DOMAIN params} |->
        params[CHOOSE k \in DOMAIN params :
                   /\ Lower(params[k]) = lowerName
                   /\ \A j \in (k + 1)..Len(params) : Lower(params[j]) # lowerName]]

findParam(lowerCaseNames, originalNames, possibleNames) ==
    LET found == FirstPresent(possibleNames, lowerCaseNames)
    IN IF found # 0
       THEN StringValue(originalNames[Lower(possibleNames[found])])
       ELSE Undefined

\* analyzePaginationCapabilities that looks for a page parameter before it
\* looks for a cursor parameter.
analyzePaginationCapabilities_PageFirst(params) ==
    LET paramNames == [k \in DOMAIN params |-> Lower(params[k])]
        originalNames == OriginalNames(params)
        pageParam == findParam(paramNames, originalNames, pageParamNames)
        limitParam == findParam(paramNames, originalNames, limitParamNames)
        offsetParam == findParam(paramNames, originalNames, offsetParamNames)
    IN IF Truthy(pageParam)
       THEN [style |-> "page", pageParam |-> pageParam,
             perPageParam |-> findParam(paramNames, originalNames, perPageParamNames)]
       ELSE IF FirstPresent(cursorParamNames, paramNames) # 0
       THEN [style |-> "cursor", limitParam |-> limitParam]
       ELSE IF Truthy(limitParam) \/ Truthy(offsetParam)
       THEN [style |-> "offset", limitParam |-> limitParam, offsetParam |-> offsetParam]
       ELSE [style |-> "none"]

analyzePaginationCapabilities(params) ==
    LET paramNames == [k \in DOMAIN params |-> Lower(params[k])]
        originalNames == OriginalNames(params)
        pageParam == findParam(paramNames, originalNames, pageParamNames)
        limitParam == findParam(paramNames, originalNames, limitParamNames)
        offsetParam == findParam(paramNames, originalNames, offsetParamNames)
    IN IF FirstPresent(cursorParamNames, paramNames) # 0
       THEN [style |-> "cursor", limitParam |-> limitParam]
       ELSE IF Truthy(pageParam)
       THEN [style |-> "page", pageParam |-> pageParam,
             perPageParam |-> findParam(paramNames, originalNames, perPageParamNames)]
       ELSE IF Truthy(limitParam) \/ Truthy(offsetParam)
       THEN [style |-> "offset", limitParam |-> limitParam, offsetParam |-> offsetParam]
       ELSE [style |-> "none"]

analyzeQueryParameters(params) ==
    [filter |-> analyzeFilterCapabilities(params),
     sort |-> analyzeSortCapabilities(params),
     pagination |-> analyzePaginationCapabilities(params)]

\* The parameter names of the operations analysed: the known names, some
\* of them in other cases, and names of other kinds.
ParamNames ==
    knownNonFilterParams
        \cup Range(
          <<<<"P", "a", "g", "e">>, <<"L", "I", "M", "I", "T">>,
            <<"C", "u", "r", "s", "o", "r">>,
            <<"O", "f", "f", "s", "e", "t">>,
            <<"S", "o", "r", "t", "B", "y">>,
            <<"P", "a", "g", "e", "S", "i", "z", "e">>,
            <<"A", "F", "T", "E", "R">>, <<"S", "o", "r", "t">>>>)
        \cup Range(
          <<<<"s", "t", "a", "t", "u", "s">>, <<"q">>,
            <<"p", "r", "i", "c", "e", "_", "g", "t", "e">>,
            <<"n", "a", "m", "e", "_", "l", "i", "k", "e">>,
            <<"f", "i", "l", "t", "e", "r", "[", "s", "t", "a", "t", "u", "s", "]">>,
            <<"f", "i", "l", "t", "e", "r", "[", "p", "r", "i", "c", "e", "]", "[", "g", "t", "e", "]">>,
            <<"i", "d", "s", "[", "]">>,
            <<"$", "f", "i", "l", "t", "e", "r">>>>)

MaxParams == 2       \* most query parameters of one operation

OpenapiInit ==
    /\ \E n \in 0..MaxParams : queryParams \in [1..n -> ParamNames]
    /\ capabilities = Unused
    /\ pc = "ready"
    /\ IdleExcept("openapi")

AnalyzeFilterCapabilities ==
    /\ pc = "ready"
    /\ capabilities' = analyzeFilterCapabilities(queryParams)
    /\ pc' = "filter"
    /\ UNCHANGED <<exceptOpenapi, queryParams>>

AnalyzeSortCapabilities ==
    /\ pc = "ready"
    /\ capabilities' = analyzeSortCapabilities(queryParams)
    /\ pc' = "sort"
    /\ UNCHANGED <<exceptOpenapi, queryParams>>

AnalyzePaginationCapabilities ==
    /\ pc = "ready"
    /\ capabilities' = analyzePaginationCapabilities(queryParams)
    /\ pc' = "pagination"
    /\ UNCHANGED <<exceptOpenapi, queryParams>>

AnalyzeQueryParameters ==
    /\ pc = "ready"
    /\ capabilities' = analyzeQueryParameters(queryParams)
    /\ pc' = "analyzed"
    /\ UNCHANGED <<exceptOpenapi, queryParams>>

OpenapiNext ==
    \/ AnalyzeFilterCapabilities
    \/ AnalyzeSortCapabilities
    \/ AnalyzePaginationCapabilities
    \/ AnalyzeQueryParameters

OpenapiSpec == OpenapiInit /\ [][OpenapiNext]_vars

(***************************************************************************)
(* GraphQL query field analysis (adapters/graphql/analysis).  An argument  *)
(* is a record of its name and its type; a type is a scalar or an input    *)
(* object with its name (and the names of its fields), or a nonNull or     *)
(* list wrapper with the type it wraps.                                    *)
(***************************************************************************)
hasuraFilterPatterns ==
    <<<<"_", "b", "o", "o", "l", "_", "e", "x", "p">>,
      <<"_", "w", "h", "e", "r", "e">>>>

hasuraFilterFields ==
    <<<<"_", "e", "q">>, <<"_", "n", "e", "q">>, <<"_", "l", "t">>,
      <<"_", "l", "t", "e">>, <<"_", "g", "t">>, <<"_", "g", "t", "e">>,
      <<"_", "i", "n">>, <<"_", "n", "i", "n">>, <<"_", "a", "n", "d">>,
      <<"_", "o", "r">>, <<"_", "n", "o", "t">>>>

prismaFilterPatterns ==
    <<<<"W", "h", "e", "r", "e", "I", "n", "p", "u", "t">>,
      <<"W", "h", "e", "r", "e", "U", "n", "i", "q", "u", "e", "I", "n", "p", "u", "t">>>>

prismaFilterFields ==
    <<<<"e", "q", "u", "a", "l", "s">>, <<"n", "o", "t">>, <<"i", "n">>,
      <<"n", "o", "t", "I", "n">>, <<"l", "t">>, <<"l", "t", "e">>,
      <<"g", "t">>, <<"g", "t", "e">>,
      <<"c", "o", "n", "t", "a", "i", "n", "s">>,
      <<"s", "t", "a", "r", "t", "s", "W", "i", "t", "h">>,
      <<"e", "n", "d", "s", "W", "i", "t", "h">>>>

hasuraOrderByPatterns ==
    <<<<"_", "o", "r", "d", "e", "r", "_", "b", "y">>>>

prismaOrderByPatterns ==
    <<<<"O", "r", "d", "e", "r", "B", "y", "I", "n", "p", "u", "t">>,
      <<"O", "r", "d", "e", "r", "B", "y", "W", "i", "t", "h", "R", "e", "l", "a", "t", "i", "o", "n", "I", "n", "p", "u", "t">>>>

filterArgNames ==
    <<<<"w", "h", "e", "r", "e">>, <<"f", "i", "l", "t", "e", "r">>,
      <<"f", "i", "l", "t", "e", "r", "s">>>>

sortArgNames ==
    <<<<"o", "r", "d", "e", "r", "_", "b", "y">>,
      <<"o", "r", "d", "e", "r", "B", "y">>, <<"s", "o", "r", "t">>,
      <<"s", "o", "r", "t", "B", "y">>>>

limitArgNames ==
    <<<<"l", "i", "m", "i", "t">>, <<"f", "i", "r", "s", "t">>,
      <<"t", "a", "k", "e">>>>

offsetArgNames ==
    <<<<"o", "f", "f", "s", "e", "t">>, <<"s", "k", "i", "p">>>>

\* patterns.some((pattern) => pattern.test(typeName)): every pattern is a
\* literal followed by $, which without the m flag is the end of the input.
SomePatternTest(patterns, typeName) ==
    \E k \in DOMAIN patterns : EndsWith(typeName, patterns[k])

RECURSIVE unwrapType(_)

unwrapType(type) ==
    IF type.kind = "nonNull" THEN unwrapType(type.ofType)
    ELSE IF type.kind = "list" THEN unwrapType(type.ofType)
    ELSE type

isInputObjectType(type) == type.kind = "inputObject"

\* The position of args.find((a) => a.name.toLowerCase() ===
\* name.toLowerCase()); 0 when find returns undefined.
FindArg(args, name) ==
    LET same(k) == Lower(args[k].name) = Lower(name)
    IN IF \E k \in DOMAIN args : same(k)
       THEN CHOOSE k \in DOMAIN args : same(k) /\ \A j \in 1..(k - 1) : ~same(j)
       ELSE 0

detectFilterStyleGraphQL(inputType) ==
    LET typeName == inputType.name
        fieldNames == inputType.fieldNames
    IN IF SomePatternTest(hasuraFilterPatterns, typeName) THEN "hasura"
       ELSE IF \E k \in DOMAIN hasuraFilterFields :
                   hasuraFilterFields[k] \in Range(fieldNames) THEN "hasura"
       ELSE IF SomePatternTest(prismaFilterPatterns, typeName) THEN "prisma"
       ELSE IF \E k \in DOMAIN prismaFilterFields :
                   prismaFilterFields[k] \in Range(fieldNames) THEN "prisma"
       ELSE "custom"

analyzeFilterCapabilitiesGraphQL(args) ==
    LET accepted(k) ==
            LET found == FindArg(args, filterArgNames[k])
            IN found # 0 /\ isInputObjectType(unwrapType(args[found].type))
    IN IF \E k \in DOMAIN filterArgNames : accepted(k)
       THEN LET first == CHOOSE k \in DOMAIN filterArgNames :
                             accepted(k) /\ \A j \in 1..(k - 1) : ~accepted(j)
                inputType == unwrapType(args[FindArg(args, filterArgNames[first])].type)
            IN [hasFiltering |-> TRUE,
                filterStyle |-> detectFilterStyleGraphQL(inputType),
                filterInputType |-> inputType.name]
       ELSE [hasFiltering |-> FALSE]

analyzeSortCapabilitiesGraphQL(args) ==
    LET present(k) == FindArg(args, sortArgNames[k]) # 0
    IN IF \E k \in DOMAIN sortArgNames : present(k)
       THEN LET first == CHOOSE k \in DOMAIN sortArgNames :
                             present(k) /\ \A j \in 1..(k - 1) : ~present(j)
                sortArg == args[FindArg(args, sortArgNames[first])]
                inputType == unwrapType(sortArg.type)
            IN [hasSorting |-> TRUE,
                sortParam |-> sortArg.name,
                orderByInputType |-> IF isInputObjectType(inputType)
                                     THEN StringValue(inputType.name)
                                     ELSE Undefined]
       ELSE [hasSorting |-> FALSE]

detectOrderByStyle(typeName) ==
    IF SomePatternTest(hasuraOrderByPatterns, typeName) THEN "hasura"
    ELSE IF SomePatternTest(prismaOrderByPatterns, typeName) THEN "prisma"
    ELSE "undefined"

findArgName(args, name) ==
    LET found == FindArg(args, name)
    IN IF found # 0 THEN StringValue(args[found].name) ELSE Undefined

findArgNameFromList(args, possibleNames) ==
    LET argNames == [k \in DOMAIN args |-> Lower(args[k].name)]
        found == FirstPresent(possibleNames, argNames)
    IN IF found # 0 THEN findArgName(args, possibleNames[found]) ELSE Undefined

\* analyzePaginationCapabilities that takes first for the only limit of a
\* Relay connection.
analyzePaginationCapabilitiesGraphQL_FirstOnly(args) ==
    LET argNames == {Lower(args[k].name) : k \in DOMAIN args}
        hasFirst == <<"f", "i", "r", "s", "t">> \in argNames
        hasAfter == <<"a", "f", "t", "e", "r">> \in argNames
        hasBefore == <<"b", "e", "f", "o", "r", "e">> \in argNames
        hasTake == <<"t", "a", "k", "e">> \in argNames
        hasSkip == <<"s", "k", "i", "p">> \in argNames
        hasLimit == \E k \in DOMAIN limitArgNames : Lower(limitArgNames[k]) \in argNames
        hasOffset == \E k \in DOMAIN offsetArgNames : Lower(offsetArgNames[k]) \in argNames
    IN IF hasFirst /\ (hasAfter \/ hasBefore)
       THEN [style |-> "relay", limitParam |-> findArgName(args, <<"f", "i", "r", "s", "t">>)]
       ELSE IF hasTake \/ hasSkip
       THEN [style |-> "offset",
             limitParam |-> findArgName(args, <<"t", "a", "k", "e">>),
             offsetParam |-> findArgName(args, <<"s", "k", "i", "p">>)]
       ELSE IF hasLimit \/ hasOffset
       THEN [style |-> "offset",
             limitParam |-> findArgNameFromList(args, limitArgNames),
             offsetParam |-> findArgNameFromList(args, offsetArgNames)]
       ELSE [style |-> "none"]

analyzePaginationCapabilitiesGraphQL(args) ==
    LET argNames == {Lower(args[k].name) : k \in DOMAIN args}
        hasFirst == <<"f", "i", "r", "s", "t">> \in argNames
        hasLast == <<"l", "a", "s", "t">> \in argNames
        hasAfter == <<"a", "f", "t", "e", "r">> \in argNames
        hasBefore == <<"b", "e", "f", "o", "r", "e">> \in argNames
        hasTake == <<"t", "a", "k", "e">> \in argNames
        hasSkip == <<"s", "k", "i", "p">> \in argNames
        hasLimit == \E k \in DOMAIN limitArgNames : Lower(limitArgNames[k]) \in argNames
        hasOffset == \E k \in DOMAIN offsetArgNames : Lower(offsetArgNames[k]) \in argNames
    IN IF (hasFirst \/ hasLast) /\ (hasAfter \/ hasBefore)
       THEN [style |-> "relay",
             limitParam |-> IF hasFirst THEN findArgName(args, <<"f", "i", "r", "s", "t">>)
                            ELSE findArgName(args, <<"l", "a", "s", "t">>)]
       ELSE IF hasTake \/ hasSkip
       THEN [style |-> "offset",
             limitParam |-> findArgName(args, <<"t", "a", "k", "e">>),
             offsetParam |-> findArgName(args, <<"s", "k", "i", "p">>)]
       ELSE IF hasLimit \/ hasOffset
       THEN [style |-> "offset",
             limitParam |-> findArgNameFromList(args, limitArgNames),
             offsetParam |-> findArgNameFromList(args, offsetArgNames)]
       ELSE [style |-> "none"]

analyzeGraphQLQueryCapabilities(field) ==
    [filter |-> analyzeFilterCapabilitiesGraphQL(field.args),
     sort |-> analyzeSortCapabilitiesGraphQL(field.args),
     pagination |-> analyzePaginationCapabilitiesGraphQL(field.args)]

hasQueryCapabilities(caps) ==
    \/ caps.filter.hasFiltering
    \/ caps.sort.hasSorting
    \/ caps.pagination.style # "none"

\* The value is a preset or "undefined".  A property the capabilities do
\* not have reads as undefined; sort.hasSorting is not consulted.
inferPredicateMappingPreset(caps) ==
    IF /\ caps.filter.hasFiltering
       /\ "filterStyle" \in DOMAIN caps.filter
       /\ caps.filter.filterStyle \notin {"undefined", ""}
       /\ caps.filter.filterStyle # "custom"
    THEN caps.filter.filterStyle
    ELSE IF /\ "orderByInputType" \in DOMAIN caps.sort
            /\ Truthy(caps.sort.orderByInputType)
    THEN detectOrderByStyle(caps.sort.orderByInputType.value)
    ELSE "undefined"

\* The arguments of the query fields analysed: the pagination arguments,
\* some of them in other cases, filter and sort arguments of several types,
\* and arguments of other kinds.
PaginationArgs ==
    {[name |-> n, type |-> [kind |-> "scalar", name |-> <<"I", "n", "t">>]] :
        n \in Range(
          <<<<"f", "i", "r", "s", "t">>, <<"l", "a", "s", "t">>,
            <<"a", "f", "t", "e", "r">>, <<"b", "e", "f", "o", "r", "e">>,
            <<"t", "a", "k", "e">>, <<"s", "k", "i", "p">>,
            <<"l", "i", "m", "i", "t">>, <<"o", "f", "f", "s", "e", "t">>,
            <<"F", "i", "r", "s", "t">>, <<"A", "F", "T", "E", "R">>,
            <<"T", "a", "k", "e">>>>)}

FilterArgs ==
    {[name |-> <<"w", "h", "e", "r", "e">>, type |-> [kind |-> "inputObject", name |-> <<"u", "s", "e", "r", "_", "b", "o", "o", "l", "_", "e", "x", "p">>,
         fieldNames |-> <<>>]],
     [name |-> <<"w", "h", "e", "r", "e">>, type |-> [kind |-> "nonNull", ofType |->
         [kind |-> "inputObject", name |-> <<"U", "s", "e", "r", "W", "h", "e", "r", "e", "I", "n", "p", "u", "t">>,
         fieldNames |-> <<<<"n", "a", "m", "e">>>>]]],
     [name |-> <<"w", "h", "e", "r", "e">>, type |-> [kind |-> "scalar", name |-> <<"S", "t", "r", "i", "n", "g">>]],
     [name |-> <<"F", "i", "l", "t", "e", "r">>, type |-> [kind |-> "inputObject", name |-> <<"U", "s", "e", "r", "F", "i", "l", "t", "e", "r">>,
         fieldNames |-> <<<<"n", "a", "m", "e">>, <<"_", "e", "q">>>>]],
     [name |-> <<"f", "i", "l", "t", "e", "r", "s">>, type |-> [kind |-> "list", ofType |-> [kind |-> "nonNull", ofType |->
         [kind |-> "inputObject", name |-> <<"U", "s", "e", "r", "F", "i", "l", "t", "e", "r">>,
         fieldNames |-> <<<<"e", "q", "u", "a", "l", "s">>>>]]]],
     [name |-> <<"f", "i", "l", "t", "e", "r">>, type |-> [kind |-> "inputObject", name |-> <<"U", "s", "e", "r", "F", "i", "l", "t", "e", "r">>,
         fieldNames |-> <<<<"n", "a", "m", "e">>>>]]}

SortArgs ==
    {[name |-> <<"o", "r", "d", "e", "r", "_", "b", "y">>, type |-> [kind |-> "list", ofType |->
         [kind |-> "inputObject", name |-> <<"u", "s", "e", "r", "_", "o", "r", "d", "e", "r", "_", "b", "y">>,
         fieldNames |-> <<>>]]],
     [name |-> <<"o", "r", "d", "e", "r", "B", "y">>, type |-> [kind |-> "inputObject", name |-> <<"U", "s", "e", "r", "O", "r", "d", "e", "r", "B", "y", "I", "n", "p", "u", "t">>,
         fieldNames |-> <<>>]],
     [name |-> <<"s", "o", "r", "t">>, type |-> [kind |-> "scalar", name |-> <<"S", "t", "r", "i", "n", "g">>]],
     [name |-> <<"S", "o", "r", "t", "B", "y">>, type |-> [kind |-> "inputObject", name |-> <<"U", "s", "e", "r", "S", "o", "r", "t">>,
         fieldNames |-> <<>>]]}

OtherArgs ==
    {[name |-> <<"i", "d">>, type |-> [kind |-> "nonNull", ofType |-> [kind |-> "scalar", name |-> <<"I", "D">>]]],
     [name |-> <<"s", "e", "a", "r", "c", "h">>, type |-> [kind |-> "scalar", name |-> <<"S", "t", "r", "i", "n", "g">>]]}

FieldArgs == PaginationArgs \cup FilterArgs \cup SortArgs \cup OtherArgs

MaxArgs == 2         \* most arguments of one query field

GraphqlInit ==
    /\ \E n \in 0..MaxArgs : fieldArgs \in [1..n -> FieldArgs]
    /\ fieldCapabilities = Unused
    /\ pc = "ready"
    /\ IdleExcept("graphql")

AnalyzeFilterCapabilitiesGraphQL ==
    /\ pc = "ready"
    /\ fieldCapabilities' = analyzeFilterCapabilitiesGraphQL(fieldArgs)
    /\ pc' = "filter"
    /\ UNCHANGED <<exceptGraphql, fieldArgs>>

AnalyzeSortCapabilitiesGraphQL ==
    /\ pc = "ready"
    /\ fieldCapabilities' = analyzeSortCapabilitiesGraphQL(fieldArgs)
    /\ pc' = "sort"
    /\ UNCHANGED <<exceptGraphql, fieldArgs>>

AnalyzePaginationCapabilitiesGraphQL ==
    /\ pc = "ready"
    /\ fieldCapabilities' = analyzePaginationCapabilitiesGraphQL(fieldArgs)
    /\ pc' = "pagination"
    /\ UNCHANGED <<exceptGraphql, fieldArgs>>

AnalyzeGraphQLQueryCapabilities ==
    /\ pc = "ready"
    /\ fieldCapabilities' = analyzeGraphQLQueryCapabilities([args |-> fieldArgs])
    /\ pc' = "analyzed"
    /\ UNCHANGED <<exceptGraphql, fieldArgs>>

GraphqlNext ==
    \/ AnalyzeFilterCapabilitiesGraphQL
    \/ AnalyzeSortCapabilitiesGraphQL
    \/ AnalyzePaginationCapabilitiesGraphQL
    \/ AnalyzeGraphQLQueryCapabilities

GraphqlSpec == GraphqlInit /\ [][GraphqlNext]_vars

(***************************************************************************)
(* GraphQL entity discovery (adapters/graphql/collections).  An output     *)
(* type is a scalar or an object type with its name (and its fields, in    *)
(* the order of getFields()), or a nonNull or list wrapper.  An operation  *)
(* of the documents carries its kind, its name and the selections of its   *)
(* selection set.  overrides is Undefined or an object with its entries.   *)
(***************************************************************************)
Null == [type |-> "null"]

\* s.includes(sub)
Includes(s, sub) ==
    \E k \in 0..(Len(s) - Len(sub)) : SubSeq(s, k + 1, k + Len(sub)) = sub

\* toPascalCase of @/utils/naming.
toPascalCaseNaming(s) == ReplaceFirst(ReplaceSeparators(s, 1))

isObjectType(type) == type # Undefined /\ type.kind = "object"

isScalarType(type) == type.kind = "scalar"

RECURSIVE unwrapOutputType(_)

\* unwrapType of the collections module.
unwrapOutputType(type) ==
    IF type.kind \in {"nonNull", "list"} THEN unwrapOutputType(type.ofType) ELSE type

getTypeScriptType(type) ==
    LET unwrapped == unwrapOutputType(type)
    IN IF isScalarType(unwrapped)
       THEN IF unwrapped.name \in {<<"I", "n", "t">>, <<"F", "l", "o", "a", "t">>} THEN "number"
            ELSE IF unwrapped.name = <<"B", "o", "o", "l", "e", "a", "n">> THEN "boolean"
            ELSE "string"
       ELSE "string"

analyzeReturnType(type) ==
    LET unwrapped == IF type.kind = "nonNull" THEN type.ofType ELSE type
        itemType == IF unwrapped.ofType.kind = "nonNull"
                    THEN unwrapped.ofType.ofType ELSE unwrapped.ofType
    IN IF unwrapped.kind = "list" /\ isObjectType(itemType)
       THEN [isList |-> TRUE, itemTypeName |-> StringValue(itemType.name)]
       ELSE [isList |-> FALSE, itemTypeName |-> Null]

\* The position of documents.operations.find(...) for the field fieldName:
\* the first query operation that selects the field, under its alias when
\* it has one; 0 when find returns undefined.
FindOperation(docs, fieldName) ==
    LET selects(o) ==
            /\ o.operation = "query"
            /\ \E k \in DOMAIN o.selections :
                  /\ o.selections[k].kind = "Field"
                  /\ (IF Truthy(o.selections[k].alias)
                      THEN o.selections[k].alias.value
                      ELSE o.selections[k].name) = fieldName
        ops == docs.operations
    IN IF \E k \in DOMAIN ops : selects(ops[k])
       THEN CHOOSE k \in DOMAIN ops :
                selects(ops[k]) /\ \A j \in 1..(k - 1) : ~selects(ops[j])
       ELSE 0

RECURSIVE findListQueriesFrom(_, _, _)

\* The loop of findListQueries over the fields, from position k on.
findListQueriesFrom(fields, docs, k) ==
    IF k > Len(fields) THEN <<>>
    ELSE LET field == fields[k]
             returned == analyzeReturnType(field.type)
             found == FindOperation(docs, field.name)
         IN (IF returned.isList /\ Truthy(returned.itemTypeName) /\ found # 0
             THEN <<[field |-> field,
                     typeName |-> returned.itemTypeName.value,
                     operation |-> docs.operations[found]]>>
             ELSE <<>>) \o findListQueriesFrom(fields, docs, k + 1)

findListQueries(queryType, docs) == findListQueriesFrom(queryType.fields, docs, 1)

\* fields[name] for the fields of an object type; Undefined when there is
\* no such field.
FieldGet(type, name) ==
    IF \E k \in DOMAIN type.fields : type.fields[k].name = name
    THEN type.fields[CHOOSE k \in DOMAIN type.fields : type.fields[k].name = name]
    ELSE Undefined

keyFieldCandidates ==
    <<<<"i", "d">>, <<"_", "i", "d">>, <<"u", "u", "i", "d">>,
      <<"k", "e", "y">>>>

\* The value carries the warnings after the call.
findKeyField(type, override, warns, typeName) ==
    LET afterOverride ==
            IF Truthy(override) /\ FieldGet(type, override.value) = Undefined
            THEN Append(warns, [template |-> "Configured keyField '${override}' not found in type ${typeName || \"unknown\"}",
                                override |-> override.value,
                                typeName |-> typeName])
            ELSE warns
        idField == FieldGet(type, <<"i", "d">>)
        isCandidate(k) == FieldGet(type, keyFieldCandidates[k]) # Undefined
    IN IF Truthy(override) /\ FieldGet(type, override.value) # Undefined
       THEN [keyField |-> override,
             keyFieldType |-> getTypeScriptType(FieldGet(type, override.value).type),
             warnings |-> warns]
       ELSE IF /\ idField # Undefined
               /\ isScalarType(unwrapOutputType(idField.type))
               /\ unwrapOutputType(idField.type).name = <<"I", "D">>
       THEN [keyField |-> StringValue(<<"i", "d">>), keyFieldType |-> "string",
             warnings |-> afterOverride]
       ELSE IF \E k \in DOMAIN keyFieldCandidates : isCandidate(k)
       THEN LET first == CHOOSE k \in DOMAIN keyFieldCandidates :
                             isCandidate(k) /\ \A j \in 1..(k - 1) : ~isCandidate(j)
            IN [keyField |-> StringValue(keyFieldCandidates[first]),
                keyFieldType |->
                    getTypeScriptType(FieldGet(type, keyFieldCandidates[first]).type),
                warnings |-> afterOverride]
       ELSE [keyField |-> Null, keyFieldType |-> "string", warnings |-> afterOverride]

\* The mutations one mutation operation contributes, in the order of the
\* three tests.
CrudMutationsOf(mutation, typeNameLower) ==
    LET nameLower == Lower(mutation.name)
        inputTypeName == toPascalCaseNaming(mutation.name) \o <<"V", "a", "r", "i", "a", "b", "l", "e", "s">>
        mentions == Includes(nameLower, typeNameLower)
    IN (IF StartsWith(nameLower, <<"c", "r", "e", "a", "t", "e">>) /\ mentions
        THEN <<[type |-> "insert", operationName |-> mutation.name,
                inputTypeName |-> inputTypeName]>>
        ELSE <<>>)
       \o (IF StartsWith(nameLower, <<"u", "p", "d", "a", "t", "e">>) /\ mentions
           THEN <<[type |-> "update", operationName |-> mutation.name,
                   inputTypeName |-> inputTypeName]>>
           ELSE <<>>)
       \o (IF /\ \/ StartsWith(nameLower, <<"d", "e", "l", "e", "t", "e">>)
                 \/ StartsWith(nameLower, <<"r", "e", "m", "o", "v", "e">>)
              /\ mentions
           THEN <<[type |-> "delete", operationName |-> mutation.name]>>
           ELSE <<>>)

RECURSIVE findCrudMutationsFrom(_, _, _)

findCrudMutationsFrom(mutationOps, typeNameLower, k) ==
    IF k > Len(mutationOps) THEN <<>>
    ELSE CrudMutationsOf(mutationOps[k], typeNameLower)
             \o findCrudMutationsFrom(mutationOps, typeNameLower, k + 1)

findCrudMutations(typeName, docs) ==
    findCrudMutationsFrom(SelectSeq(docs.operations, LAMBDA o : o.operation = "mutation"),
                          Lower(typeName), 1)

\* graphqlSchema.getType(typeName)
GetType(graphqlSchema, typeName) ==
    IF \E k \in DOMAIN graphqlSchema.types : graphqlSchema.types[k].name = typeName
    THEN graphqlSchema.types[CHOOSE k \in DOMAIN graphqlSchema.types :
                                 graphqlSchema.types[k].name = typeName]
    ELSE Undefined

\* overrides?.[typeName]
OverrideGet(overs, typeName) ==
    IF /\ overs # Undefined
       /\ \E k \in DOMAIN overs.entries : overs.entries[k].key = typeName
    THEN overs.entries[CHOOSE k \in DOMAIN overs.entries :
                           overs.entries[k].key = typeName].config
    ELSE Undefined

OnDemandWarning(typeName) ==
    [template |-> "Entity \"${typeName}\" configured for on-demand sync, but no filtering arguments detected on the query field. Collection will fetch all data regardless of predicates.",
     typeName |-> typeName]

\* The value carries the entity, or Null, and the warnings after the call.
discoverEntityFromListQuery(field, typeName, operation, graphqlSchema, docs, overs, warns) ==
    LET type == GetType(graphqlSchema, typeName)
        entityOverrides == OverrideGet(overs, typeName)
        keyFieldOverride ==
            IF entityOverrides = Undefined THEN Undefined ELSE entityOverrides.keyField
        key == findKeyField(type, keyFieldOverride, warns, typeName)
        mutations == findCrudMutations(typeName, docs)
        queryCapabilities == analyzeGraphQLQueryCapabilities(field)
        syncMode ==
            IF entityOverrides = Undefined THEN "undefined" ELSE entityOverrides.syncMode
        afterSync ==
            IF syncMode = "on-demand" /\ ~hasQueryCapabilities(queryCapabilities)
            THEN Append(key.warnings, OnDemandWarning(typeName))
            ELSE key.warnings
        hasArgs == Len(field.args) > 0
        detectedPreset == inferPredicateMappingPreset(queryCapabilities)
    IN IF type = Undefined \/ ~isObjectType(type)
       THEN [entity |-> Null,
             warnings |-> Append(warns, [template |-> "Could not find object type ${typeName} in schema",
                                         typeName |-> typeName])]
       ELSE IF key.keyField = Null
       THEN [entity |-> Null,
             warnings |-> Append(key.warnings,
                                 [template |-> "Could not find key field for entity ${typeName} - skipping collection generation",
                                  typeName |-> typeName])]
       ELSE [entity |->
                [name |-> typeName,
                 typeName |-> toPascalCaseNaming(typeName),
                 keyField |-> key.keyField.value,
                 keyFieldType |-> key.keyFieldType,
                 listQuery |->
                    [operationName |-> operation.name,
                     queryKey |-> <<typeName>>,
                     paramsTypeName |->
                        IF hasArgs
                        THEN StringValue(toPascalCaseNaming(operation.name)
                                            \o <<"Q", "u", "e", "r", "y", "V", "a", "r", "i", "a", "b", "l", "e", "s">>)
                        ELSE Undefined],
                 mutations |-> mutations,
                 syncMode |-> syncMode,
                 predicateMapping |->
                    IF entityOverrides # Undefined
                       /\ entityOverrides.predicateMapping # "undefined"
                    THEN entityOverrides.predicateMapping
                    ELSE detectedPreset,
                 filterCapabilities |-> queryCapabilities.filter,
                 sortCapabilities |-> queryCapabilities.sort,
                 paginationCapabilities |-> queryCapabilities.pagination],
             warnings |-> afterSync]

\* The object types of the schemas analysed.
UserType ==
    [kind |-> "object", name |-> <<"U", "s", "e", "r">>,
     fields |->
        <<[name |-> <<"i", "d">>, type |-> [kind |-> "nonNull", ofType |-> [kind |-> "scalar", name |-> <<"I", "D">>]]],
          [name |-> <<"e", "m", "a", "i", "l">>, type |-> [kind |-> "scalar", name |-> <<"S", "t", "r", "i", "n", "g">>]]>>]

PostType ==
    [kind |-> "object", name |-> <<"P", "o", "s", "t">>,
     fields |->
        <<[name |-> <<"t", "i", "t", "l", "e">>, type |-> [kind |-> "scalar", name |-> <<"S", "t", "r", "i", "n", "g">>]],
          [name |-> <<"u", "u", "i", "d">>, type |-> [kind |-> "nonNull", ofType |-> [kind |-> "scalar", name |-> <<"S", "t", "r", "i", "n", "g">>]]]>>]

LogType ==
    [kind |-> "object", name |-> <<"L", "o", "g">>,
     fields |->
        <<[name |-> <<"m", "e", "s", "s", "a", "g", "e">>, type |-> [kind |-> "scalar", name |-> <<"S", "t", "r", "i", "n", "g">>]]>>]

LowerUserType ==
    [kind |-> "object", name |-> <<"u", "s", "e", "r">>,
     fields |->
        <<[name |-> <<"_", "i", "d">>, type |-> [kind |-> "scalar", name |-> <<"I", "n", "t">>]],
          [name |-> <<"i", "d">>, type |-> [kind |-> "scalar", name |-> <<"I", "n", "t">>]]>>]

SchemaTypes == <<UserType, PostType, LogType, LowerUserType>>

\* The fields of the Query types analysed.
QueryFields ==
    {[name |-> <<"u", "s", "e", "r", "s">>,
         type |-> [kind |-> "nonNull", ofType |-> [kind |-> "list", ofType |-> [kind |-> "nonNull", ofType |-> UserType]]],
         args |-> 
            <<[name |-> <<"w", "h", "e", "r", "e">>, type |-> [kind |-> "inputObject", name |-> <<"u", "s", "e", "r", "_", "b", "o", "o", "l", "_", "e", "x", "p">>, fieldNames |-> <<>>]]>>],
     [name |-> <<"a", "l", "l", "U", "s", "e", "r", "s">>,
         type |-> [kind |-> "list", ofType |-> UserType],
         args |-> <<>>],
     [name |-> <<"p", "o", "s", "t", "s">>,
         type |-> [kind |-> "list", ofType |-> [kind |-> "nonNull", ofType |-> PostType]],
         args |-> 
            <<[name |-> <<"f", "i", "r", "s", "t">>, type |-> [kind |-> "scalar", name |-> <<"I", "n", "t">>]],
              [name |-> <<"a", "f", "t", "e", "r">>, type |-> [kind |-> "scalar", name |-> <<"S", "t", "r", "i", "n", "g">>]]>>],
     [name |-> <<"d", "r", "a", "f", "t", "s">>,
         type |-> [kind |-> "list", ofType |-> PostType],
         args |-> 
            <<[name |-> <<"l", "a", "s", "t">>, type |-> [kind |-> "scalar", name |-> <<"I", "n", "t">>]]>>],
     [name |-> <<"l", "o", "g", "s">>,
         type |-> [kind |-> "list", ofType |-> LogType],
         args |-> 
            <<[name |-> <<"s", "e", "a", "r", "c", "h">>, type |-> [kind |-> "scalar", name |-> <<"S", "t", "r", "i", "n", "g">>]]>>],
     [name |-> <<"p", "e", "o", "p", "l", "e">>,
         type |-> [kind |-> "nonNull", ofType |-> [kind |-> "list", ofType |-> LowerUserType]],
         args |-> 
            <<[name |-> <<"o", "r", "d", "e", "r", "B", "y">>, type |-> [kind |-> "inputObject", name |-> <<"U", "s", "e", "r", "O", "r", "d", "e", "r", "B", "y", "I", "n", "p", "u", "t">>, fieldNames |-> <<>>]]>>],
     [name |-> <<"u", "s", "e", "r">>,
         type |-> UserType,
         args |-> 
            <<[name |-> <<"i", "d">>, type |-> [kind |-> "nonNull", ofType |-> [kind |-> "scalar", name |-> <<"I", "D">>]]]>>],
     [name |-> <<"t", "a", "g", "s">>,
         type |-> [kind |-> "list", ofType |-> [kind |-> "scalar", name |-> <<"S", "t", "r", "i", "n", "g">>]],
         args |-> <<>>]}

\* The operations of the documents analysed.
QueryOperations ==
    <<[operation |-> "query", name |-> <<"G", "e", "t", "U", "s", "e", "r", "s">>,
     selections |-> <<[kind |-> "Field", alias |-> Undefined, name |-> <<"u", "s", "e", "r", "s">>]>>],
      [operation |-> "query", name |-> <<"l", "i", "s", "t", "_", "a", "l", "l", "_", "u", "s", "e", "r", "s">>,
     selections |-> <<[kind |-> "Field", alias |-> StringValue(<<"a", "l", "l", "U", "s", "e", "r", "s">>), name |-> <<"u", "s", "e", "r", "s">>], [kind |-> "FragmentSpread", alias |-> Undefined, name |-> <<"U", "s", "e", "r", "P", "a", "r", "t", "s">>]>>],
      [operation |-> "query", name |-> <<"F", "e", "e", "d">>,
     selections |-> <<[kind |-> "Field", alias |-> Undefined, name |-> <<"p", "o", "s", "t", "s">>], [kind |-> "Field", alias |-> StringValue(<<"d", "r", "a", "f", "t", "s">>), name |-> <<"p", "o", "s", "t", "s">>]>>],
      [operation |-> "query", name |-> <<"L", "o", "g", "s">>,
     selections |-> <<[kind |-> "Field", alias |-> Undefined, name |-> <<"l", "o", "g", "s">>]>>],
      [operation |-> "query", name |-> <<"P", "e", "o", "p", "l", "e">>,
     selections |-> <<[kind |-> "Field", alias |-> Undefined, name |-> <<"p", "e", "o", "p", "l", "e">>], [kind |-> "Field", alias |-> Undefined, name |-> <<"u", "s", "e", "r">>], [kind |-> "Field", alias |-> Undefined, name |-> <<"t", "a", "g", "s">>]>>]>>

MutationOperations ==
    <<[operation |-> "mutation", name |-> <<"C", "r", "e", "a", "t", "e", "U", "s", "e", "r">>,
     selections |-> <<[kind |-> "Field", alias |-> Undefined, name |-> <<"c", "r", "e", "a", "t", "e", "U", "s", "e", "r">>]>>],
      [operation |-> "mutation", name |-> <<"u", "p", "d", "a", "t", "e", "U", "s", "e", "r", "E", "m", "a", "i", "l">>,
     selections |-> <<[kind |-> "Field", alias |-> Undefined, name |-> <<"u", "p", "d", "a", "t", "e", "U", "s", "e", "r">>]>>],
      [operation |-> "mutation", name |-> <<"r", "e", "m", "o", "v", "e", "P", "o", "s", "t">>,
     selections |-> <<[kind |-> "Field", alias |-> Undefined, name |-> <<"d", "e", "l", "e", "t", "e", "P", "o", "s", "t">>]>>],
      [operation |-> "mutation", name |-> <<"u", "s", "e", "r", "s">>,
     selections |-> <<[kind |-> "Field", alias |-> Undefined, name |-> <<"u", "s", "e", "r", "s">>]>>]>>

DocumentSets ==
    {[operations |-> QueryOperations \o MutationOperations],
     [operations |-> MutationOperations \o SubSeq(QueryOperations, 2, 5)],
     [operations |-> SubSeq(QueryOperations, 1, 3)],
     [operations |-> <<>>]}

OverrideSets ==
    {Undefined,
     [type |-> "object", entries |->
        <<[key |-> <<"U", "s", "e", "r">>,
           config |-> [keyField |-> Undefined, syncMode |-> "on-demand", predicateMapping |-> "undefined"]]>>],
     [type |-> "object", entries |->
        <<[key |-> <<"U", "s", "e", "r">>,
           config |-> [keyField |-> Undefined, syncMode |-> "on-demand", predicateMapping |-> "prisma"]],
          [key |-> <<"P", "o", "s", "t">>,
           config |-> [keyField |-> Undefined, syncMode |-> "on-demand", predicateMapping |-> "undefined"]],
          [key |-> <<"L", "o", "g">>,
           config |-> [keyField |-> Undefined, syncMode |-> "on-demand", predicateMapping |-> "undefined"]],
          [key |-> <<"u", "s", "e", "r">>,
           config |-> [keyField |-> Undefined, syncMode |-> "on-demand", predicateMapping |-> "undefined"]]>>],
     [type |-> "object", entries |->
        <<[key |-> <<"U", "s", "e", "r">>,
           config |-> [keyField |-> StringValue(<<"e", "m", "a", "i", "l">>), syncMode |-> "full", predicateMapping |-> "undefined"]],
          [key |-> <<"P", "o", "s", "t">>,
           config |-> [keyField |-> StringValue(<<"s", "l", "u", "g">>), syncMode |-> "on-demand", predicateMapping |-> "undefined"]],
          [key |-> <<"u", "s", "e", "r">>,
           config |-> [keyField |-> StringValue(<<"m", "i", "s", "s", "i", "n", "g">>), syncMode |-> "undefined", predicateMapping |-> "undefined"]]>>]}

MaxQueryFields == 2  \* most fields of one Query type

\* The Query types: none, or fields of pairwise distinct names.
QueryTypes ==
    {Null} \cup
    {[fields |-> f] :
        f \in UNION {{g \in [1..n -> QueryFields] :
                         \A a, b \in 1..n : a # b => g[a].name # g[b].name} :
                     n \in 0..MaxQueryFields}}

DiscoveryInit ==
    /\ \E queryType \in QueryTypes :
          gqlSchema = [queryType |-> queryType, types |-> SchemaTypes]
    /\ documents \in DocumentSets
    /\ overrides \in OverrideSets
    /\ listQueries = <<>>
    /\ lq = 1
    /\ entities = <<>>
    /\ warnings = <<>>
    /\ pc = "ready"
    /\ IdleExcept("discovery")

\* Lines 55-66: without a Query type the function returns at once.
DiscoverStart ==
    /\ pc = "ready"
    /\ IF gqlSchema.queryType = Null
       THEN /\ warnings' = Append(warnings, [template |-> "No Query type found in schema"])
            /\ pc' = "discovered"
            /\ UNCHANGED listQueries
       ELSE /\ listQueries' = findListQueries(gqlSchema.queryType, documents)
            /\ pc' = "loop"
            /\ UNCHANGED warnings
    /\ UNCHANGED <<exceptDiscovery, gqlSchema, documents, overrides, lq, entities>>

\* DiscoverEntity without the test for an entity of the same type.
DiscoverEntity_NoDuplicateCheck ==
    /\ pc = "loop"
    /\ lq <= Len(listQueries)
    /\ LET found == discoverEntityFromListQuery(
                        listQueries[lq].field, listQueries[lq].typeName,
                        listQueries[lq].operation, gqlSchema, documents, overrides, warnings)
           entity == found.entity
       IN /\ warnings' = found.warnings
          /\ entities' = IF entity # Null THEN Append(entities, entity) ELSE entities
    /\ lq' = lq + 1
    /\ UNCHANGED <<exceptDiscovery, gqlSchema, documents, overrides, listQueries, pc>>

\* Lines 68-86: one iteration of the loop over the list queries.
DiscoverEntity ==
    /\ pc = "loop"
    /\ lq <= Len(listQueries)
    /\ LET found == discoverEntityFromListQuery(
                        listQueries[lq].field, listQueries[lq].typeName,
                        listQueries[lq].operation, gqlSchema, documents, overrides, warnings)
           entity == found.entity
       IN /\ warnings' = found.warnings
          /\ entities' =
                IF /\ entity # Null
                   /\ ~\E k \in DOMAIN entities : entities[k].typeName = entity.typeName
                THEN Append(entities, entity)
                ELSE entities
    /\ lq' = lq + 1
    /\ UNCHANGED <<exceptDiscovery, gqlSchema, documents, overrides, listQueries, pc>>

\* Line 88: return { entities, warnings }.
DiscoverReturn ==
    /\ pc = "loop"
    /\ lq > Len(listQueries)
    /\ pc' = "discovered"
    /\ UNCHANGED <<exceptDiscovery, gqlSchema, documents, overrides, listQueries, lq,
                   entities, warnings>>

DiscoveryNext == DiscoverStart \/ DiscoverEntity \/ DiscoverReturn

DiscoverySpec == DiscoveryInit /\ [][DiscoveryNext]_vars

(***************************************************************************)
(* Parsers and emitters (generators/ir/graphql, generators/ir/openapi,     *)
(* generators/emitters/{zod,valibot,arktype,effect}).  The emitted module  *)
(* is the sequence of its lines; an expression is the sequence of its      *)
(* tokens: a piece of library syntax (text), the name of a schema variable *)
(* (identifier) or an object key as written (key).  The schemas are those  *)
(* of the kinds string, null, undefined, unknown, enum, array, union, ref  *)
(* and object; names are sequences of characters.                          *)
(***************************************************************************)
SchemaIRKind ==
    {"string", "number", "boolean", "bigint", "null", "undefined", "unknown",
     "never", "date", "object", "array", "tuple", "record", "enum", "literal",
     "union", "intersection", "ref", "raw"}

TextToken(t) == [text |-> t]

IdentifierToken(nm) == [identifier |-> nm]

KeyToken(k) == [key |-> k]

\* The syntax of a library for the kinds above.
Syntax(lib) ==
    CASE lib = "zod" ->
            [string |-> "z.string()", null |-> "z.null()",
             undefined |-> "z.undefined()", unknown |-> "z.unknown()",
             enumOpen |-> "z.enum([", enumClose |-> "])",
             arrayOpen |-> <<TextToken("z.array(")>>, arrayClose |-> <<TextToken(")")>>,
             unionOpen |-> <<TextToken("z.union([")>>, unionSeparator |-> ", ",
             unionClose |-> <<TextToken("])")>>,
             objectOpen |-> "z.object({", objectClose |-> "})"]
      [] lib = "valibot" ->
            [string |-> "v.string()", null |-> "v.null()",
             undefined |-> "v.undefined()", unknown |-> "v.unknown()",
             enumOpen |-> "v.picklist([", enumClose |-> "])",
             arrayOpen |-> <<TextToken("v.array(")>>, arrayClose |-> <<TextToken(")")>>,
             unionOpen |-> <<TextToken("v.union([")>>, unionSeparator |-> ", ",
             unionClose |-> <<TextToken("])")>>,
             objectOpen |-> "v.object({", objectClose |-> "})"]
      [] lib = "arktype" ->
            [string |-> "string", null |-> "null",
             undefined |-> "undefined", unknown |-> "unknown",
             enumOpen |-> "type.enumerated(", enumClose |-> ")",
             arrayOpen |-> <<>>, arrayClose |-> <<TextToken("[]")>>,
             unionOpen |-> <<>>, unionSeparator |-> " | ",
             unionClose |-> <<>>,
             objectOpen |-> "{", objectClose |-> "}"]
      [] lib = "effect" ->
            [string |-> "Schema.String", null |-> "Schema.Null",
             undefined |-> "Schema.Undefined", unknown |-> "Schema.Unknown",
             enumOpen |-> "Schema.Literal(", enumClose |-> ")",
             arrayOpen |-> <<TextToken("Schema.Array(")>>, arrayClose |-> <<TextToken(")")>>,
             unionOpen |-> <<TextToken("Schema.Union(")>>, unionSeparator |-> ", ",
             unionClose |-> <<TextToken(")")>>,
             objectOpen |-> "Schema.Struct({", objectClose |-> "})"]

getImportStatement(lib) ==
    CASE lib = "zod" -> "import * as z from \"zod\""
      [] lib = "valibot" -> "import * as v from \"valibot\""
      [] lib = "arktype" -> "import { type } from \"arktype\""
      [] lib = "effect" -> "import { Schema } from \"effect\""

\* export type <typeName> = <the library's inference from schemaVarName>
getTypeInference(lib, schemaVarName, typeName) ==
    [kind |-> "type",
     name |-> typeName,
     inference |->
        CASE lib = "zod" ->
                <<TextToken("z.infer<typeof "), IdentifierToken(schemaVarName), TextToken(">")>>
          [] lib = "valibot" ->
                <<TextToken("v.InferOutput<typeof "), IdentifierToken(schemaVarName),
                  TextToken(">")>>
          [] lib = "arktype" ->
                <<TextToken("typeof "), IdentifierToken(schemaVarName), TextToken(".infer")>>
          [] lib = "effect" ->
                <<TextToken("typeof "), IdentifierToken(schemaVarName), TextToken(".Type")>>]

\* The fixed header of every emitted module.
Header ==
    <<[kind |-> "comment", text |-> "/* eslint-disable */"],
      [kind |-> "comment", text |-> "/* auto-generated by tangrams */"]>>

UnsupportedKindWarning(kind) == [template |-> "Unsupported schema kind", kind |-> kind]

RECURSIVE EnumValues(_, _)

\* The values of an enum, quoted and separated by commas, from position k on.
EnumValues(values, k) ==
    IF k > Len(values) THEN <<>>
    ELSE <<TextToken("\"" \o values[k] \o "\"")>>
            \o (IF k < Len(values) THEN <<TextToken(", ")>> ELSE <<>>)
            \o EnumValues(values, k + 1)

\* A property with required: false: the value accepts null and absence.
OptionalProperty(lib, key, code) ==
    CASE lib = "zod" ->
            <<KeyToken(getSafePropertyName(key)), TextToken(": ")>>
                \o code \o <<TextToken(".nullish()")>>
      [] lib = "valibot" ->
            <<KeyToken(getSafePropertyName(key)), TextToken(": "), TextToken("v.nullish(")>>
                \o code \o <<TextToken(")")>>
      [] lib = "arktype" ->
            <<KeyToken(<<"\"">> \o key \o <<"?", "\"">>), TextToken(": ")>>
                \o code \o <<TextToken(" | null")>>
      [] lib = "effect" ->
            <<KeyToken(getSafePropertyName(key)), TextToken(": "),
              TextToken("Schema.NullishOr(")>>
                \o code \o <<TextToken(")")>>

RequiredProperty(lib, key, code) ==
    IF lib = "arktype"
    THEN <<KeyToken(<<"\"">> \o key \o <<"\"">>), TextToken(": ")>> \o code
    ELSE <<KeyToken(getSafePropertyName(key)), TextToken(": ")>> \o code

\* The emitter that has no fallback: a node it cannot represent is left out
\* and nothing is reported.
Fallback_Silent(lib, kind) == [code |-> <<>>, warnings |-> <<>>]

\* A node of a kind the emitter cannot represent: the permissive schema and
\* a warning.
Fallback(lib, kind) ==
    [code |-> <<TextToken(Syntax(lib).unknown)>>,
     warnings |-> <<UnsupportedKindWarning(kind)>>]

RECURSIVE emitSchema(_, _), emitMembers(_, _, _), emitProperties(_, _, _)

\* The expression of one SchemaIR node and the warnings it gave rise to.
emitSchema(lib, schema) ==
    CASE schema.kind \in {"string", "null", "undefined", "unknown"} ->
            [code |-> <<TextToken(Syntax(lib)[schema.kind])>>, warnings |-> <<>>]
      [] schema.kind = "enum" ->
            [code |-> <<TextToken(Syntax(lib).enumOpen)>> \o EnumValues(schema.values, 1)
                        \o <<TextToken(Syntax(lib).enumClose)>>,
             warnings |-> <<>>]
      [] schema.kind = "ref" ->
            [code |-> <<IdentifierToken(toSchemaName(schema.name))>>, warnings |-> <<>>]
      [] schema.kind = "array" ->
            LET items == emitSchema(lib, schema.items)
            IN [code |-> Syntax(lib).arrayOpen \o items.code \o Syntax(lib).arrayClose,
                warnings |-> items.warnings]
      [] schema.kind = "union" ->
            LET members == emitMembers(lib, schema.members, 1)
            IN [code |-> Syntax(lib).unionOpen \o members.code \o Syntax(lib).unionClose,
                warnings |-> members.warnings]
      [] schema.kind = "object" ->
            LET properties == emitProperties(lib, schema.properties, 1)
            IN [code |-> <<TextToken(Syntax(lib).objectOpen)>> \o properties.code
                            \o <<TextToken(Syntax(lib).objectClose)>>,
                warnings |-> properties.warnings]
      [] OTHER -> Fallback(lib, schema.kind)

\* The members of a union, in order, from position k on.
emitMembers(lib, members, k) ==
    IF k > Len(members) THEN [code |-> <<>>, warnings |-> <<>>]
    ELSE LET member == emitSchema(lib, members[k])
             rest == emitMembers(lib, members, k + 1)
         IN [code |-> member.code
                        \o (IF k < Len(members)
                            THEN <<TextToken(Syntax(lib).unionSeparator)>> ELSE <<>>)
                        \o rest.code,
             warnings |-> member.warnings \o rest.warnings]

\* The properties of an object, in insertion order, from position k on.
emitProperties(lib, properties, k) ==
    IF k > Len(properties) THEN [code |-> <<>>, warnings |-> <<>>]
    ELSE LET value == emitSchema(lib, properties[k].schema)
             rest == emitProperties(lib, properties, k + 1)
         IN [code |-> (IF properties[k].required
                       THEN RequiredProperty(lib, properties[k].key, value.code)
                       ELSE OptionalProperty(lib, properties[k].key, value.code))
                        \o <<TextToken(",")>> \o rest.code,
             warnings |-> value.warnings \o rest.warnings]

\* The right-hand side of an exported schema constant.
emitConstant(lib, schema) ==
    LET value == emitSchema(lib, schema)
    IN IF lib = "arktype" /\ schema.kind \notin {"enum", "ref"}
       THEN [code |-> <<TextToken("type(")>> \o value.code \o <<TextToken(")")>>,
             warnings |-> value.warnings]
       ELSE value

RECURSIVE emitEntries(_, _, _)

\* The lines and the warnings of the entries from position k on.
emitEntries(lib, list, k) ==
    IF k > Len(list) THEN [content |-> <<>>, warnings |-> <<>>]
    ELSE LET value == emitConstant(lib, list[k].schema)
             schemaVarName == toSchemaName(list[k].name)
             rest == emitEntries(lib, list, k + 1)
         IN [content |->
                <<[kind |-> "const", name |-> schemaVarName, code |-> value.code],
                  getTypeInference(lib, schemaVarName, list[k].name)>>
                    \o rest.content,
             warnings |-> value.warnings \o rest.warnings]

RECURSIVE Reverse(_)

Reverse(list) ==
    IF list = <<>> THEN <<>> ELSE Reverse(Tail(list)) \o <<Head(list)>>

\* An emitter that writes the entries last first.
emit_Reversed(lib, list) ==
    LET body == emitEntries(lib, Reverse(list), 1)
    IN [content |-> Header \o <<[kind |-> "import", text |-> getImportStatement(lib)]>>
                        \o body.content,
        warnings |-> body.warnings]

\* emitter.emit(schemas)
emit(lib, list) ==
    LET body == emitEntries(lib, list, 1)
    IN [content |-> Header \o <<[kind |-> "import", text |-> getImportStatement(lib)]>>
                        \o body.content,
        warnings |-> body.warnings]

\* GraphQL input type: a field without the non-null wrapper is optional and
\* nullish.
parseGraphQLInputField(field) ==
    [key |-> field.name,
     schema |-> IF field.nonNull THEN field.type ELSE makeNullish(field.type),
     required |-> field.nonNull]

\* OpenAPI parameter: required from the parameter, nullable from its schema.
parseOpenAPIParameter(parameter) ==
    [key |-> parameter.name,
     schema |-> IF parameter.nullable THEN makeNullable(parameter.schema)
                ELSE parameter.schema,
     required |-> parameter.required]

\* The NamedSchemaIR of one declaration.
parseDeclaration(declaration) ==
    CASE declaration.origin = "graphql" ->
            createNamedSchema(
                declaration.name,
                [kind |-> "object",
                 properties |-> [k \in 1..Len(declaration.fields) |->
                                    parseGraphQLInputField(declaration.fields[k])],
                 additionalProperties |-> [typeof |-> "undefined"]],
                "input")
      [] declaration.origin = "openapi" ->
            createNamedSchema(
                declaration.name,
                [kind |-> "object",
                 properties |-> [k \in 1..Len(declaration.parameters) |->
                                    parseOpenAPIParameter(declaration.parameters[k])],
                 additionalProperties |-> [typeof |-> "undefined"]],
                "params")
      [] declaration.origin = "component" ->
            createNamedSchema(declaration.name, declaration.schema, "component")

StatusName == <<"S", "t", "a", "t", "u", "s">>

StringSchema == [kind |-> "string"]

StatusRef == [kind |-> "ref", name |-> StatusName]

\* A node of a kind outside SchemaIRKind.
SymbolSchema == [kind |-> "symbol"]

NoAdditional == [typeof |-> "undefined"]

GraphQLDeclarations ==
    {[origin |-> "graphql",
      name |-> <<"C", "r", "e", "a", "t", "e", "U", "s", "e", "r", "I", "n", "p", "u", "t">>,
      fields |-> <<[name |-> <<"e", "m", "a", "i", "l">>, type |-> t, nonNull |-> b]>>] :
        t \in {StringSchema, StatusRef}, b \in BOOLEAN}

OpenAPIDeclarations ==
    {[origin |-> "openapi",
      name |-> <<"L", "i", "s", "t", "P", "e", "t", "s", "P", "a", "r", "a", "m", "s">>,
      parameters |-> <<[name |-> <<"l", "i", "m", "i", "t">>, schema |-> t,
                        required |-> r, nullable |-> n]>>] :
        t \in {StringSchema, StatusRef}, r \in BOOLEAN, n \in BOOLEAN}

ComponentDeclarations ==
    {[origin |-> "component", name |-> StatusName,
      schema |-> [kind |-> "enum", values |-> <<"active", "inactive">>]],
     [origin |-> "component", name |-> <<"U", "s", "e", "r">>,
      schema |-> [kind |-> "object",
                  properties |->
                    <<[key |-> <<"i", "d">>, schema |-> StringSchema, required |-> TRUE],
                      [key |-> <<"e", "m", "a", "i", "l">>, schema |-> StringSchema,
                       required |-> FALSE]>>,
                  additionalProperties |-> NoAdditional]],
     [origin |-> "component", name |-> <<"U", "s", "e", "r">>,
      schema |-> [kind |-> "object",
                  properties |->
                    <<[key |-> <<"s", "p", "e", "c", "i", "a", "l", "-", "n", "a", "m", "e">>, schema |-> StatusRef,
                       required |-> TRUE]>>,
                  additionalProperties |-> NoAdditional]],
     [origin |-> "component", name |-> <<"T", "a", "g", "s">>,
      schema |-> [kind |-> "array", items |-> StringSchema]],
     [origin |-> "component", name |-> <<"M", "i", "x", "e", "d">>,
      schema |-> [kind |-> "union", members |-> <<StringSchema, StatusRef>>]],
     [origin |-> "component", name |-> <<"O", "d", "d">>,
      schema |-> SymbolSchema],
     [origin |-> "component", name |-> <<"H", "o", "l", "d", "e", "r">>,
      schema |-> [kind |-> "object",
                  properties |->
                    <<[key |-> <<"v", "a", "l", "u", "e">>, schema |-> SymbolSchema,
                       required |-> TRUE]>>,
                  additionalProperties |-> NoAdditional]]}

Declarations == GraphQLDeclarations \cup OpenAPIDeclarations \cup ComponentDeclarations

MaxEntries == 2      \* most declarations of one source

EmitInit ==
    /\ emitLibrary \in Range(EmitterKeys)
    /\ \E n \in 0..MaxEntries :
          declarations \in {d \in [1..n -> Declarations] :
                              \A p, q \in 1..n : p # q => d[p].name # d[q].name}
    /\ emitSchemas = Unused
    /\ emitResult = Unused
    /\ pc = "ready"
    /\ IdleExcept("emit")

\* The parser stage: one NamedSchemaIR per declaration, in order.
Parse ==
    /\ pc = "ready"
    /\ emitSchemas' = [k \in 1..Len(declarations) |-> parseDeclaration(declarations[k])]
    /\ pc' = "parsed"
    /\ UNCHANGED <<exceptEmit, emitLibrary, declarations, emitResult>>

\* getEmitter(library).emit(schemas)
Emit ==
    /\ pc = "parsed"
    /\ emitResult' = emit(emitLibrary, emitSchemas)
    /\ pc' = "emitted"
    /\ UNCHANGED <<exceptEmit, emitLibrary, declarations, emitSchemas>>

EmitNext == Parse \/ Emit

EmitSpec == EmitInit /\ [][EmitNext]_vars

(***************************************************************************)
(* The generate command (cli/commands/generate) and generate of            *)
(* core/generator.  A source is seen through its name and through what its *)
(* generation comes to: files ("ok"), files and warnings ("warnings") or a *)
(* fatal error ("fatal").  loadTangenConfig resolves with a list of        *)
(* sources or rejects.  A rejection is seen through what the catch block   *)
(* reads of it: whether the value is an Error, and its message.  Only      *)
(* run() is given in the code: what generate does with the fatal error of  *)
(* a source is open, so both outcomes are steps, the error kept inside     *)
(* generate (GenerateSource) and the error leaving it (GenerateRejects).   *)
(***************************************************************************)
SourceNames == <<"graphql", "petstore", "users", "billing", "search">>

Fates == {"ok", "warnings", "fatal"}

MaxSources == 3      \* most sources of one configuration

NoRejection == [rejects |-> FALSE, isError |-> FALSE, message |-> ""]

\* The values loadTangenConfig rejects with: an Error, or a value that is
\* not one (a string, an object, undefined).
LoadRejections ==
    {[rejects |-> TRUE, isError |-> TRUE, message |-> "Config file not found"],
     [rejects |-> TRUE, isError |-> FALSE, message |-> ""]}

ConfigFiles ==
    {[loads |-> FALSE, loadRejection |-> r, sources |-> <<>>] : r \in LoadRejections}
        \cup UNION {{[loads |-> TRUE,
                      loadRejection |-> NoRejection,
                      sources |-> [k \in 1..n |-> [name |-> SourceNames[k], fate |-> f[k]]]] :
                        f \in [1..n -> Fates]} : n \in 0..MaxSources}

\* Lines 61-66: what the catch block logs for the value caught.
CaughtMessage(rejection) ==
    IF rejection.isError THEN rejection.message ELSE "An unexpected error occurred"

GenerateInit ==
    /\ configFile \in ConfigFiles
    /\ genSources = <<>>
    /\ genIndex = 1
    /\ written = <<>>
    /\ surfaced = <<>>
    /\ logs = <<>>
    /\ exitCode = Undefined
    /\ pc = "ready"
    /\ IdleExcept("generate")

\* Lines 37-52: run() up to the await of loadTangenConfig.
RunGenerate ==
    /\ pc = "ready"
    /\ logs' = Append(logs, [level |-> "start", message |-> "Loading configuration..."])
    /\ pc' = "loading"
    /\ UNCHANGED <<exceptGenerate, configFile, genSources, genIndex, written, surfaced,
                   exitCode>>

\* Lines 52-58 and 61-66: loadTangenConfig settles; run() goes on to the
\* call of generate, or to the catch block.
LoadTangenConfig ==
    /\ pc = "loading"
    /\ IF configFile.loads
       THEN /\ genSources' = configFile.sources
            /\ logs' = Append(logs, [level |-> "start",
                                     message |-> "Generating TanStack Query artifacts..."])
            /\ pc' = "generate"
       ELSE /\ genSources' = genSources
            /\ logs' = Append(logs, [level |-> "error",
                                     message |-> CaughtMessage(configFile.loadRejection)])
            /\ pc' = "exit"
    /\ UNCHANGED <<exceptGenerate, configFile, genIndex, written, surfaced, exitCode>>

\* Lines 58 and 61-66: the fatal error of the source at hand leaves
\* generate, as an Error whose message names the source or as another
\* value, and run() goes to the catch block; the sources after it are not
\* generated.
GenerateRejects ==
    /\ pc = "generate"
    /\ genIndex <= Len(genSources)
    /\ genSources[genIndex].fate = "fatal"
    /\ \E isError \in BOOLEAN :
          logs' = Append(logs,
                         [level |-> "error",
                          message |-> CaughtMessage([rejects |-> TRUE,
                                                     isError |-> isError,
                                                     message |-> genSources[genIndex].name])])
    /\ pc' = "exit"
    /\ UNCHANGED <<exceptGenerate, configFile, genSources, genIndex, written, surfaced,
                   exitCode>>

\* generate: one turn of the loop over the sources, for a source whose
\* error, if any, stays inside generate.  The files of a source are written
\* when its generation succeeds, with or without warnings; a fatal error is
\* reported for the source and the loop goes on.
GenerateSource ==
    /\ pc = "generate"
    /\ genIndex <= Len(genSources)
    /\ LET source == genSources[genIndex]
       IN CASE source.fate = "ok" ->
                  /\ written' = Append(written, source.name)
                  /\ surfaced' = surfaced
            [] source.fate = "warnings" ->
                  /\ written' = Append(written, source.name)
                  /\ surfaced' = Append(surfaced, [level |-> "warn", source |-> source.name])
            [] source.fate = "fatal" ->
                  /\ written' = written
                  /\ surfaced' = Append(surfaced, [level |-> "error", source |-> source.name])
    /\ genIndex' = genIndex + 1
    /\ pc' = "generate"
    /\ UNCHANGED <<exceptGenerate, configFile, genSources, logs, exitCode>>

\* Lines 58-60: generate resolves; run() logs the success and returns.
GenerateReturn ==
    /\ pc = "generate"
    /\ genIndex > Len(genSources)
    /\ logs' = Append(logs, [level |-> "success", message |-> "Generation complete!"])
    /\ pc' = "done"
    /\ UNCHANGED <<exceptGenerate, configFile, genSources, genIndex, written, surfaced,
                   exitCode>>

\* Line 67: process.exit(1) at the end of the catch block.
ProcessExit ==
    /\ pc = "exit"
    /\ exitCode' = 1
    /\ pc' = "exited"
    /\ UNCHANGED <<exceptGenerate, configFile, genSources, genIndex, written, surfaced, logs>>

GenerateNext ==
    \/ RunGenerate \/ LoadTangenConfig \/ GenerateRejects
    \/ GenerateSource \/ GenerateReturn \/ ProcessExit

GenerateSpec == GenerateInit /\ [][GenerateNext]_vars

(***************************************************************************)
(* The init command (cli/commands/init).  The configuration file of the    *)
(* working directory is absent or holds a text; the text a generator of    *)
(* core/config returns is named by the call that returns it.               *)
(***************************************************************************)
validSourceTypes == <<"graphql", "openapi", "both">>

getConfigContent(sourceType) ==
    CASE sourceType = "graphql" -> "generateDefaultConfig()"
      [] sourceType = "openapi" -> "generateMultiSourceConfig({ openapi: true })"
      [] sourceType = "both" -> "generateMultiSourceConfig({ graphql: true, openapi: true })"
      [] OTHER -> "generateDefaultConfig()"

\* A text is the sequence of its pieces between backquotes: the text
\* a`b`c is <<"a", "b", "c">>, a text without backquotes has one piece.
getNextStepsMessage(sourceType) ==
    CASE sourceType = "graphql" ->
            <<<<"1. Update the schema URL in tangen.config.ts">>,
              <<"2. Create your GraphQL operation files (.graphql)">>,
              <<"3. Run ", "tangen generate", " to generate TypeScript code">>>>
      [] sourceType = "openapi" ->
            <<<<"1. Update the spec path/URL in tangen.config.ts">>,
              <<"2. Run ", "tangen generate", " to generate TypeScript code">>,
              <<"3. Install peer dependencies: @better-fetch/fetch zod">>>>
      [] sourceType = "both" ->
            <<<<"1. Update the schema URLs/paths in tangen.config.ts">>,
              <<"2. Create your GraphQL operation files (.graphql)">>,
              <<"3. Run ", "tangen generate", " to generate TypeScript code">>,
              <<"4. Install peer dependencies for OpenAPI: @better-fetch/fetch zod">>>>
      [] OTHER -> <<>>

\* The values of --source tried.
SourceArgs ==
    {"graphql", "openapi", "both", "GraphQL", "Both", "", "rest", "graphql,openapi"}

\* The texts tangen.config.ts holds before the command runs.
ExistingTexts ==
    {"existing content", "generateDefaultConfig()",
     "generateMultiSourceConfig({ openapi: true })",
     "generateMultiSourceConfig({ graphql: true, openapi: true })"}

Absent == [exists |-> FALSE, content |-> ""]

InitCommandInit ==
    /\ initArgs \in [force : BOOLEAN, source : SourceArgs]
    /\ configOnDisk \in {Absent} \cup {[exists |-> TRUE, content |-> t] : t \in ExistingTexts}
    /\ initLogs = <<>>
    /\ initExitCode = Undefined
    /\ pc = "ready"
    /\ IdleExcept("init")

\* run() without the test of args.force.
InitRun_IgnoreForce ==
    /\ pc = "ready"
    /\ IF initArgs.source \notin Range(validSourceTypes)
       THEN /\ initLogs' = Append(initLogs,
                                  [level |-> "error",
                                   message |-> "Invalid source type \"${args.source}\". Must be one of: graphql, openapi, both",
                                   detail |-> <<initArgs.source>>])
            /\ pc' = "exit"
       ELSE /\ pc' = "writeFile"
            /\ UNCHANGED initLogs
    /\ UNCHANGED <<exceptInit, initArgs, configOnDisk, initExitCode>>

\* Lines 80-101: run() up to process.exit(1) or to the await of writeFile.
InitRun ==
    /\ pc = "ready"
    /\ IF initArgs.source \notin Range(validSourceTypes)
       THEN /\ initLogs' = Append(initLogs,
                                  [level |-> "error",
                                   message |-> "Invalid source type \"${args.source}\". Must be one of: graphql, openapi, both",
                                   detail |-> <<initArgs.source>>])
            /\ pc' = "exit"
       ELSE IF configOnDisk.exists /\ ~initArgs.force
       THEN /\ initLogs' = Append(initLogs,
                                  [level |-> "error",
                                   message |-> "Config file already exists at ${configPath}. Use --force to overwrite.",
                                   detail |-> <<"tangen.config.ts">>])
            /\ pc' = "exit"
       ELSE /\ pc' = "writeFile"
            /\ UNCHANGED initLogs
    /\ UNCHANGED <<exceptInit, initArgs, configOnDisk, initExitCode>>

\* Line 101: writeFile opens the file for writing, which creates it or
\* empties it, while run() waits.
InitWriteFileOpen ==
    /\ pc = "writeFile"
    /\ configOnDisk' = [exists |-> TRUE, content |-> ""]
    /\ pc' = "writing"
    /\ UNCHANGED <<exceptInit, initArgs, initLogs, initExitCode>>

\* Line 101: writeFile writes the text, while run() waits.
InitWriteFile ==
    /\ pc = "writing"
    /\ configOnDisk' = [exists |-> TRUE, content |-> getConfigContent(initArgs.source)]
    /\ pc' = "written"
    /\ UNCHANGED <<exceptInit, initArgs, initLogs, initExitCode>>

\* Lines 103-107: after the await run() reports the next steps.
InitReport ==
    /\ pc = "written"
    /\ initLogs' =
          initLogs
             \o <<[level |-> "success", message |-> "Created tangen.config.ts", detail |-> <<>>],
                  [level |-> "info", message |-> "Next steps:", detail |-> <<>>]>>
             \o [k \in DOMAIN getNextStepsMessage(initArgs.source) |->
                    [level |-> "info", message |-> "  ${step}",
                     detail |-> getNextStepsMessage(initArgs.source)[k]]]
    /\ pc' = "done"
    /\ UNCHANGED <<exceptInit, initArgs, configOnDisk, initExitCode>>

\* Lines 89 and 96: process.exit(1) ends the process.
InitProcessExit ==
    /\ pc = "exit"
    /\ initExitCode' = 1
    /\ pc' = "exited"
    /\ UNCHANGED <<exceptInit, initArgs, configOnDisk, initLogs>>

InitCommandNext ==
    InitRun \/ InitWriteFileOpen \/ InitWriteFile \/ InitReport \/ InitProcessExit

InitCommandSpec == InitCommandInit /\ [][InitCommandNext]_vars

(***************************************************************************)
(* extractRestSimpleFilter (adapters/openapi/analysis)                     *)
(***************************************************************************)

\* extractRestSimpleFilter cutting three characters whatever the suffix.
extractRestSimpleFilter_ThreeCharacters(name) ==
    IF \E k \in DOMAIN restSimpleOperatorSuffixes :
           EndsWith(name, restSimpleOperatorSuffixes[k])
    THEN LET first == CHOOSE k \in DOMAIN restSimpleOperatorSuffixes :
                          /\ EndsWith(name, restSimpleOperatorSuffixes[k])
                          /\ \A j \in 1..(k - 1) :
                                ~EndsWith(name, restSimpleOperatorSuffixes[j])
         IN [field |-> SubSeq(name, 1, Len(name) - 3),
             operator |-> Tail(restSimpleOperatorSuffixes[first])]
    ELSE [field |-> name, operator |-> <<"e", "q">>]

\* The first suffix of the list the name ends with decides.
extractRestSimpleFilter(name) ==
    IF \E k \in DOMAIN restSimpleOperatorSuffixes :
           EndsWith(name, restSimpleOperatorSuffixes[k])
    THEN LET first == CHOOSE k \in DOMAIN restSimpleOperatorSuffixes :
                          /\ EndsWith(name, restSimpleOperatorSuffixes[k])
                          /\ \A j \in 1..(k - 1) :
                                ~EndsWith(name, restSimpleOperatorSuffixes[j])
             suffix == restSimpleOperatorSuffixes[first]
         IN [field |-> SubSeq(name, 1, Len(name) - Len(suffix)),
             operator |-> Tail(suffix)]
    ELSE [field |-> name, operator |-> <<"e", "q">>]

FieldAlphabet == {"a", "_", "e", "q", "n", "i", "t", "l"}

MaxFieldLen == 3     \* longest field name

FieldNames == UNION {[1..n -> FieldAlphabet] : n \in 0..MaxFieldLen}

RestInit ==
    /\ paramName \in FieldNames
                        \cup {f \o restSimpleOperatorSuffixes[k] :
                                 f \in FieldNames, k \in DOMAIN restSimpleOperatorSuffixes}
    /\ extracted = Unused
    /\ pc = "ready"
    /\ IdleExcept("rest")

ExtractRestSimpleFilter ==
    /\ pc = "ready"
    /\ extracted' = extractRestSimpleFilter(paramName)
    /\ pc' = "extracted"
    /\ UNCHANGED <<exceptRest, paramName>>

RestNext == ExtractRestSimpleFilter

RestSpec == RestInit /\ [][RestNext]_vars

(***************************************************************************)
(* Properties of topologicalSortSchemas                                    *)
(***************************************************************************)

\* The names of the input entries are pairwise distinct.
DistinctNames ==
    \A p, q \in DOMAIN schemas : p # q => schemas[p].name # schemas[q].name

InputNames == {schemas[k].name : k \in DOMAIN schemas}

\* The names n depends on directly, among the names of the input.
DirectDeps(n) ==
    UNION {Range(schemas[k].dependencies) : k \in {q \in DOMAIN schemas : schemas[q].name = n}}
        \cap InputNames

\* The names reachable from the set of names s in at most steps further steps.
RECURSIVE ReachSet(_, _)
ReachSet(s, steps) ==
    IF steps = 0 THEN s
    ELSE ReachSet(s \cup UNION {DirectDeps(n) : n \in s}, steps - 1)

\* a depends on b, directly or transitively (in one step or more).
Reaches(a, b) == b \in ReachSet(DirectDeps(a), Cardinality(InputNames))

Acyclic == \A n \in InputNames : ~Reaches(n, n)

\* Entry x is emitted before entry y.
Before(x, y) ==
    \E p, q \in DOMAIN result : p < q /\ result[p] = x /\ result[q] = y

\* C1: with pairwise distinct names, whenever a is emitted before b and a
\* lists b as a dependency, b depends transitively on a (they lie on a
\* cycle); without cycles every dependency that is an input entry is emitted
\* before each of its dependents.
C1_DependenciesFirst ==
    (pc = "done" /\ DistinctNames) =>
        /\ \A p, q \in DOMAIN result :
              (p < q /\ result[q].name \in Range(result[p].dependencies))
                  => Reaches(result[q].name, result[p].name)
        /\ Acyclic =>
              \A a, b \in DOMAIN schemas :
                  schemas[b].name \in Range(schemas[a].dependencies)
                      => Before(schemas[b], schemas[a])

C1_Witness ==
    /\ pc = "done"
    /\ schemas = <<[name |-> "A", dependencies |-> <<"B">>],
                   [name |-> "B", dependencies |-> <<>>]>>
    /\ result = <<[name |-> "B", dependencies |-> <<>>],
                  [name |-> "A", dependencies |-> <<"B">>]>>

\* C2 as stated: two input entries neither of which depends on the other,
\* directly or transitively, are emitted in their input order.
C2_UnrelatedKeepOrder ==
    (pc = "done" /\ DistinctNames) =>
        \A a, b \in DOMAIN schemas :
            (a < b /\ ~Reaches(schemas[a].name, schemas[b].name)
                   /\ ~Reaches(schemas[b].name, schemas[a].name))
                => Before(schemas[a], schemas[b])

\* C2, amended: with pairwise distinct names, an entry b that comes after a
\* in the input is emitted after a unless b is a direct or transitive
\* dependency of a or of an entry that precedes a in the input.
C2_OrderKeptUnlessNeededEarlier ==
    (pc = "done" /\ DistinctNames) =>
        \A a, b \in DOMAIN schemas :
            (a < b /\ \A c \in 1..a : ~Reaches(schemas[c].name, schemas[b].name))
                => Before(schemas[a], schemas[b])

\* A is emitted after C, which it needs, and so the unrelated B ends up
\* after C although it precedes C in the input.
C2_Witness ==
    /\ pc = "done"
    /\ schemas = <<[name |-> "A", dependencies |-> <<"C">>],
                   [name |-> "B", dependencies |-> <<>>],
                   [name |-> "C", dependencies |-> <<>>]>>
    /\ result = <<schemas[3], schemas[1], schemas[2]>>

\* No name is in progress twice: the activations of visit() are for
\* pairwise distinct names, and they are exactly the in-progress set.
NoReentry ==
    /\ \A p, q \in DOMAIN stack : p # q => stack[p].name # stack[q].name
    /\ visiting = {stack[p].name : p \in DOMAIN stack}

\* C3: on every input, cyclic or not, the sort returns: it never re-enters
\* a name that is in progress, never exhausts the call stack, and reaches
\* its return statement.
C3_Terminates ==
    /\ [](NoReentry /\ pc # "RangeError")
    /\ <>(pc = "done")

C3_Witness ==
    /\ pc = "done"
    /\ \E n \in InputNames : Reaches(n, n)
    /\ \E n \in InputNames : n \in Range(schemaMap[n].dependencies)
    /\ \E n, m \in InputNames : n # m /\ Reaches(n, m) /\ Reaches(m, n)

\* C4: with pairwise distinct names the output is a permutation of the
\* input: the same length, and every input entry occurs exactly once.
C4_Permutation ==
    (pc = "done" /\ DistinctNames) =>
        /\ Len(result) = Len(schemas)
        /\ \A k \in DOMAIN schemas :
              Cardinality({p \in DOMAIN result : result[p] = schemas[k]}) = 1

C4_Witness ==
    /\ pc = "done"
    /\ DistinctNames
    /\ Len(schemas) = MaxSchemas
    /\ ~Acyclic
    /\ result # schemas

\* Every dependency of an entry of list that names an entry of list names
\* one that stands earlier in list.
DependenciesEarlier(list) ==
    \A a, b \in DOMAIN list :
        list[b].name \in Range(list[a].dependencies) => b < a

\* C23: an input with pairwise distinct names in which every dependency
\* that names an input entry stands before its dependent is returned as it
\* is; and the output for an acyclic input is itself such a list (pairwise
\* distinct names, dependencies first), so that sorting it again returns it
\* unchanged.
C23_OrderedInputUntouched ==
    pc = "done" =>
        /\ (DistinctNames /\ DependenciesEarlier(schemas)) => result = schemas
        /\ Acyclic =>
              /\ \A p, q \in DOMAIN result : p # q => result[p].name # result[q].name
              /\ DependenciesEarlier(result)

\* Three entries, each depending on the ones before it, returned unchanged.
C23_Witness ==
    /\ pc = "done"
    /\ DistinctNames
    /\ DependenciesEarlier(schemas)
    /\ Len(schemas) = 3
    /\ schemas[2].dependencies = <<schemas[1].name>>
    /\ schemas[3].dependencies # <<>>
    /\ result = schemas

\* The last input entry of the name n.
LastOfName(n) ==
    schemas[CHOOSE k \in DOMAIN schemas :
               /\ schemas[k].name = n
               /\ \A q \in DOMAIN schemas : schemas[q].name = n => q <= k]

\* C24: whatever names the input entries share, the sort returns without an
\* error, and the output holds one entry per distinct name, the last input
\* entry of that name; with a shared name the output is shorter than the
\* input.
C24_LastOfEachName ==
    /\ pc # "RangeError"
    /\ pc = "done" =>
          /\ Len(result) = Cardinality(InputNames)
          /\ \A n \in InputNames :
                /\ Cardinality({p \in DOMAIN result : result[p].name = n}) = 1
                /\ \E p \in DOMAIN result : result[p] = LastOfName(n)
          /\ ~DistinctNames => Len(result) < Len(schemas)

\* Two entries of one name with different dependencies: the later one is
\* the one returned.
C24_Witness ==
    /\ pc = "done"
    /\ Len(schemas) = 3
    /\ schemas[1].name = schemas[3].name
    /\ schemas[1].dependencies # schemas[3].dependencies
    /\ Len(result) = 2
    /\ schemas[3] \in Range(result)
    /\ schemas[1] \notin Range(result)

(***************************************************************************)
(* Properties of extractDependencies and createNamedSchema                 *)
(***************************************************************************)

RECURSIVE RefNames(_)

\* The names of the ref nodes of a tree, by the structure of the tree.
RefNames(s) ==
    CASE s.kind = "ref" -> {s.name}
      [] s.kind = "object" ->
            UNION {RefNames(s.properties[k].schema) : k \in DOMAIN s.properties}
              \cup (IF s.additionalProperties.typeof = "object"
                    THEN RefNames(s.additionalProperties.schema) ELSE {})
      [] s.kind = "array" -> RefNames(s.items)
      [] s.kind = "tuple" -> UNION {RefNames(s.items[k]) : k \in DOMAIN s.items}
      [] s.kind = "record" -> RefNames(s.keyType) \cup RefNames(s.valueType)
      [] s.kind \in {"union", "intersection"} ->
            UNION {RefNames(s.members[k]) : k \in DOMAIN s.members}
      [] OTHER -> {}

NoRepeats(seq) == \A p, q \in DOMAIN seq : p # q => seq[p] # seq[q]

\* C5: the entry createNamedSchema(n, s) returns has as dependencies the
\* names extractDependencies(s) yields other than n: n itself is never
\* among them and every other ref name of s is.
C5_DependenciesMinusSelf ==
    pc = "created" =>
        /\ named.name = argName /\ named.schema = argSchema
        /\ Range(named.dependencies) = Range(extractDependencies(argSchema)) \ {argName}
        /\ argName \notin Range(named.dependencies)
        /\ \A r \in RefNames(argSchema) \ {argName} : r \in Range(named.dependencies)

C5_Witness ==
    /\ pc = "created"
    /\ argName \in RefNames(argSchema)
    /\ RefNames(argSchema) \ {argName} # {}
    /\ named.dependencies # <<>>

\* C6: extractDependencies returns exactly the names of the ref nodes
\* reachable through object properties, a schema-valued
\* additionalProperties, array and tuple items, record key and value types
\* and union and intersection members; nothing else contributes a name.
C6_ExactlyTheRefNames ==
    pc = "extracted" =>
        /\ Range(deps) = RefNames(argSchema)
        /\ NoRepeats(deps)

C6_Witness ==
    /\ pc = "extracted"
    /\ argSchema.kind = "object"
    /\ argSchema.properties # <<>>
    /\ argSchema.additionalProperties.typeof = "object"
    /\ Len(deps) = 2

\* C16: makeNullable(s) is a union node whose members are exactly s and
\* null, makeNullish(s) is a union node whose members are exactly s, null
\* and undefined, in that order, and either wrapper has the dependencies of
\* s: the same names in the same insertion order.
C16_WrappersKeepDependencies ==
    /\ pc = "nullable" =>
          /\ wrapped.kind = "union"
          /\ wrapped.members = <<argSchema, [kind |-> "null"]>>
          /\ deps = extractDependencies(argSchema)
    /\ pc = "nullish" =>
          /\ wrapped.kind = "union"
          /\ wrapped.members = <<argSchema, [kind |-> "null"], [kind |-> "undefined"]>>
          /\ deps = extractDependencies(argSchema)

\* A schema with two references is wrapped.
C16_Witness ==
    /\ pc \in {"nullable", "nullish"}
    /\ Len(deps) = 2
    /\ wrapped.members[1] = argSchema

(***************************************************************************)
(* Properties of the naming utilities                                      *)
(***************************************************************************)

Letters == Range(LowerCase) \cup Range(UpperCase)

\* C7 as stated: for every identifier s, toSchemaName(toPascalCase(s))
\* starts with a lowercase letter and ends with "Schema".
C7_LowercaseLetterFirst ==
    (pc = "pascalSchemaName" /\ isValidIdentifier(str)) =>
        /\ out[1] \in Range(LowerCase)
        /\ EndsWith(out, SchemaSuffix)

\* C7, amended: for every identifier s, toSchemaName(toPascalCase(s)) ends
\* with "Schema" and does not start with an uppercase letter; it starts
\* with a lowercase letter whenever s starts with a letter.
C7_NeverUppercaseFirst ==
    (pc = "pascalSchemaName" /\ isValidIdentifier(str)) =>
        /\ EndsWith(out, SchemaSuffix)
        /\ out[1] \notin Range(UpperCase)
        /\ str[1] \in Letters => out[1] \in Range(LowerCase)

C7_Witness ==
    /\ pc = "pascalSchemaName"
    /\ isValidIdentifier(str)
    /\ str[1] = "a"
    /\ "_" \in Range(str)
    /\ out[1] = "a"
    /\ Len(out) < Len(str) + Len(SchemaSuffix)

\* A '-' or '_' of s that the first replacement of toPascalCase consumes.
HasSeparatorMatch(s) ==
    \E k \in 1..(Len(s) - 1) : s[k] \in {"-", "_"} /\ s[k + 1] \notin LineTerminators

\* C8 as stated: for every type name T, toSchemaName(T) is toCamelCase(T)
\* followed by "Schema".
C8_SchemaNameIsCamelCase ==
    pc = "schemaName" => out = toCamelCase(str) \o SchemaSuffix

\* C8, amended: toSchemaName(T) is T with its first character lowercased,
\* followed by "Schema"; that is toCamelCase(T) followed by "Schema"
\* exactly when no '-' or '_' of T is followed by a character other than a
\* line terminator.
C8_CamelCaseUnlessSeparated ==
    pc = "schemaName" =>
        /\ out = LowerFirst(str) \o SchemaSuffix
        /\ (out = toCamelCase(str) \o SchemaSuffix) <=> ~HasSeparatorMatch(str)

C8_Witness ==
    /\ pc = "schemaName"
    /\ str = <<"B", "a", "B", "1">>
    /\ out = <<"b", "a", "B", "1">> \o SchemaSuffix
    /\ out = toCamelCase(str) \o SchemaSuffix

\* The value of the escape sequence \c of a string literal; octal, \x and
\* \u escapes are not formed by one character.
EscapeValue(c) ==
    CASE c \in LineTerminators -> [ok |-> TRUE, value |-> <<>>]
      [] c \in Digits \cup {"x", "u"} -> [ok |-> FALSE, value |-> <<>>]
      [] c = "n" -> [ok |-> TRUE, value |-> <<"\n">>]
      [] c = "r" -> [ok |-> TRUE, value |-> <<"\r">>]
      [] c = "t" -> [ok |-> TRUE, value |-> <<"\t">>]
      [] c = "f" -> [ok |-> TRUE, value |-> <<"\f">>]
      [] c = "b" -> [ok |-> TRUE, value |-> <<"U+0008">>]
      [] c = "v" -> [ok |-> TRUE, value |-> <<"U+000B">>]
      [] OTHER -> [ok |-> TRUE, value |-> <<c>>]

RECURSIVE LiteralBody(_, _)

\* The characters between the quotes of a double-quoted string literal,
\* read from position k on: whether they are well formed, and their value.
LiteralBody(b, k) ==
    IF k > Len(b) THEN [ok |-> TRUE, value |-> <<>>]
    ELSE IF b[k] = "\"" \/ b[k] \in LineTerminators THEN [ok |-> FALSE, value |-> <<>>]
    ELSE IF b[k] = "\\"
         THEN IF k = Len(b) THEN [ok |-> FALSE, value |-> <<>>]
              ELSE LET esc == EscapeValue(b[k + 1])
                       rest == LiteralBody(b, k + 2)
                   IN [ok |-> esc.ok /\ rest.ok, value |-> esc.value \o rest.value]
    ELSE LET rest == LiteralBody(b, k + 1)
         IN [ok |-> rest.ok, value |-> <<b[k]>> \o rest.value]

\* text is a double-quoted string literal whose value is content.
IsStringLiteralOf(text, content) ==
    /\ Len(text) >= 2
    /\ text[1] = "\"" /\ text[Len(text)] = "\""
    /\ LET body == LiteralBody(SubSeq(text, 2, Len(text) - 1), 1)
       IN body.ok /\ body.value = content

\* C9: getSafePropertyName(name) is name itself exactly when name is an
\* identifier, and otherwise a double-quoted string literal whose content
\* is name.
C9_QuotedExactlyOnce ==
    pc = "safe" =>
        /\ (out = str) <=> isValidIdentifier(str)
        /\ ~isValidIdentifier(str) => IsStringLiteralOf(out, str)

\* C27: for a non-empty s of ASCII letters, digits, '-' and '_' that starts
\* with a letter, toPascalCase(s) contains no '-' and is an identifier.
C27_PascalCaseIsIdentifier ==
    (/\ pc = "pascal"
     /\ str # <<>>
     /\ Range(str) \subseteq Letters \cup Digits \cup {"-", "_"}
     /\ str[1] \in Letters) =>
        /\ "-" \notin Range(out)
        /\ isValidIdentifier(out)

(***************************************************************************)
(* Properties of the emitter registry                                      *)
(***************************************************************************)

\* C10: getEmitter(id) returns the emitter whose library is id for every
\* supported id, and throws "Unknown validator library: ..." with the list
\* of the supported ids for every other string; it returns nothing that is
\* not a registered emitter.
C10_GetEmitterOrThrow ==
    pc = "got" =>
        IF library \in Range(supportedValidators)
        THEN /\ ~outcome.threw
             /\ outcome.value.type = "emitter"
             /\ outcome.value.library = library
        ELSE /\ outcome.threw
             /\ outcome.message =
                   "Unknown validator library: " \o library
                       \o ". Supported libraries: zod, valibot, arktype, effect"

\* C25: for the identifier asked for, isValidatorLibrary answers true
\* exactly when the identifier is an element of supportedValidators and
\* exactly when it is an own key of emitters; and the emitter registered
\* under a key, which getEmitter returns for it, reports that key as its
\* library.
C25_SupportedSetsAgree ==
    /\ pc = "checked" =>
          /\ outcome = (library \in Range(supportedValidators))
          /\ outcome = (library \in DOMAIN emitters)
    /\ (pc = "got" /\ library \in DOMAIN emitters) =>
          /\ ~outcome.threw
          /\ outcome.value = emitters[library]
          /\ outcome.value.library = library
    /\ Range(supportedValidators) = DOMAIN emitters
    /\ \A k \in DOMAIN emitters : emitters[k].library = k

\* The library registered last is recognised.
C25_Witness ==
    /\ pc = "checked"
    /\ library = "effect"
    /\ outcome = TRUE
    /\ library \in Range(supportedValidators)
    /\ library \in DOMAIN emitters

(***************************************************************************)
(* Properties of the OpenAPI analysis                                      *)
(***************************************************************************)

\* Two names are the same but for the case of their letters.
SameIgnoringCase(a, b) ==
    /\ Len(a) = Len(b)
    /\ \A k \in 1..Len(a) : toLowerCase(a[k]) = toLowerCase(b[k])

\* Some parameter carries, in some case, one of the names of list.
HasParamAmong(list) ==
    \E k \in DOMAIN queryParams : \E j \in DOMAIN list :
        SameIgnoringCase(queryParams[k], list[j])

\* C18: for every list of query parameters whose names are all among the
\* known sort, limit, offset, page and cursor names, analyzeFilterCapabilities
\* returns hasFiltering = false.
C18_KnownNamesAreNoFilters ==
    (pc = "filter" /\ Range(queryParams) \subseteq knownNonFilterParams)
        => ~capabilities.hasFiltering

\* C19: analyzePaginationCapabilities, matching names whatever their case,
\* returns "cursor" when a cursor, after or before parameter is present,
\* otherwise "page" when a page, pageNumber or page_number parameter is
\* present, otherwise "offset" when a limit-type or offset-type parameter is
\* present, and otherwise "none".
C19_PaginationPrecedence ==
    pc = "pagination" =>
        capabilities.style =
            IF HasParamAmong(cursorParamNames) THEN "cursor"
            ELSE IF HasParamAmong(pageParamNames) THEN "page"
            ELSE IF HasParamAmong(limitParamNames) \/ HasParamAmong(offsetParamNames)
            THEN "offset"
            ELSE "none"

\* A cursor parameter in another case wins over a page parameter.
C19_Witness ==
    /\ pc = "pagination"
    /\ capabilities.style = "cursor"
    /\ HasParamAmong(pageParamNames)
    /\ \E k \in DOMAIN queryParams :
          /\ queryParams[k] \notin Range(cursorParamNames)
          /\ Lower(queryParams[k]) \in Range(cursorParamNames)

\* The names analyzeQueryParameters returns as sort or pagination
\* parameters.
ClassifiedElsewhere ==
    LET one(record, field) ==
            IF field \in DOMAIN record /\ Truthy(record[field])
            THEN {record[field].value} ELSE {}
    IN (IF capabilities.sort.hasSorting THEN {capabilities.sort.sortParam} ELSE {})
          \cup one(capabilities.pagination, "limitParam")
          \cup one(capabilities.pagination, "offsetParam")
          \cup one(capabilities.pagination, "pageParam")
          \cup one(capabilities.pagination, "perPageParam")

\* C28: no name among filter.filterParams is also returned as the sort
\* parameter or as the limit, offset, page or per-page parameter.
C28_NoParameterClassifiedTwice ==
    (pc = "analyzed" /\ capabilities.filter.hasFiltering) =>
        Range(capabilities.filter.filterParams) \cap ClassifiedElsewhere = {}

(***************************************************************************)
(* Properties of the GraphQL analysis                                      *)
(***************************************************************************)

\* Some argument carries, in some case, one of the names of list.
HasArgAmong(list) ==
    \E k \in DOMAIN fieldArgs : \E j \in DOMAIN list :
        SameIgnoringCase(fieldArgs[k].name, list[j])

\* C20: analyzePaginationCapabilities of the GraphQL adapter, matching names
\* whatever their case, returns "relay" exactly when first or last is
\* present together with after or before; otherwise "offset" exactly when
\* one of take, skip, limit, first, offset is present; otherwise "none".
C20_RelayOffsetNone ==
    pc = "pagination" =>
        LET relay == /\ HasArgAmong(<<<<"f", "i", "r", "s", "t">>, <<"l", "a", "s", "t">>>>)
                     /\ HasArgAmong(<<<<"a", "f", "t", "e", "r">>, <<"b", "e", "f", "o", "r", "e">>>>)
            offset == HasArgAmong(
                <<<<"t", "a", "k", "e">>, <<"s", "k", "i", "p">>,
                  <<"l", "i", "m", "i", "t">>, <<"f", "i", "r", "s", "t">>,
                  <<"o", "f", "f", "s", "e", "t">>>>)
        IN fieldCapabilities.style =
               IF relay THEN "relay" ELSE IF offset THEN "offset" ELSE "none"

\* last with after or before and without first is a Relay connection whose
\* limit is last.
C20_Witness ==
    /\ pc = "pagination"
    /\ fieldCapabilities.style = "relay"
    /\ ~HasArgAmong(<<<<"f", "i", "r", "s", "t">>>>)
    /\ fieldCapabilities.limitParam = StringValue(<<"l", "a", "s", "t">>)

\* value is the original-case name of an argument that carries, in some
\* case, one of the names of list.
NamesArgAmong(value, list) ==
    /\ Truthy(value)
    /\ \E k \in DOMAIN fieldArgs :
          /\ fieldArgs[k].name = value.value
          /\ \E j \in DOMAIN list : SameIgnoringCase(fieldArgs[k].name, list[j])

\* C29: when the style returned is "offset", limitParam names an argument
\* among limit, first, take whenever there is one, and offsetParam names an
\* argument among offset, skip whenever there is one.
C29_OffsetParamsReported ==
    (pc = "pagination" /\ fieldCapabilities.style = "offset") =>
        /\ HasArgAmong(limitArgNames)
              => NamesArgAmong(fieldCapabilities.limitParam, limitArgNames)
        /\ HasArgAmong(offsetArgNames)
              => NamesArgAmong(fieldCapabilities.offsetParam, offsetArgNames)

(***************************************************************************)
(* Properties of the GraphQL entity discovery                              *)
(***************************************************************************)

\* The object type typeName has a field that can be its key: the field its
\* override names, or one of the usual key fields.
HasKeyField(typeName) ==
    LET type == GetType(gqlSchema, typeName)
        config == OverrideGet(overrides, typeName)
    IN \E k \in DOMAIN type.fields :
           \/ config # Undefined /\ config.keyField = StringValue(type.fields[k].name)
           \/ type.fields[k].name \in Range(keyFieldCandidates)

\* The entity was built from a query field without filtering, sorting and
\* pagination.
EntityHasNoCapabilities(entity) ==
    /\ ~entity.filterCapabilities.hasFiltering
    /\ ~entity.sortCapabilities.hasSorting
    /\ entity.paginationCapabilities.style = "none"

\* C17: discoverGraphQLEntities returns the on-demand warning of a type
\* exactly when the entity it returns for the type has syncMode "on-demand"
\* and a list query field with no filtering, no sorting and pagination
\* style "none": the entity warned about is among the entities returned.
C17_WarningIsAboutReturnedEntity ==
    pc = "discovered" =>
        \A t \in DOMAIN gqlSchema.types :
            LET typeName == gqlSchema.types[t].name
            IN (\E w \in DOMAIN warnings : warnings[w] = OnDemandWarning(typeName))
                  <=> \E k \in DOMAIN entities :
                          /\ entities[k].name = typeName
                          /\ entities[k].syncMode = "on-demand"
                          /\ EntityHasNoCapabilities(entities[k])

\* Field k of the Query type returns a list of the object type typeName and
\* a query operation of the documents selects it.
IsListQueryOf(k, typeName) ==
    LET field == gqlSchema.queryType.fields[k]
        returned == analyzeReturnType(field.type)
    IN /\ returned.isList
       /\ returned.itemTypeName = StringValue(typeName)
       /\ FindOperation(documents, field.name) # 0

\* The entity is the one of field k of the Query type.
IsEntityOfField(entity, k) ==
    LET field == gqlSchema.queryType.fields[k]
        operation == documents.operations[FindOperation(documents, field.name)]
        caps == analyzeGraphQLQueryCapabilities(field)
    IN /\ entity.listQuery.operationName = operation.name
       /\ Truthy(entity.listQuery.paramsTypeName) <=> Len(field.args) > 0
       /\ entity.filterCapabilities = caps.filter
       /\ entity.sortCapabilities = caps.sort
       /\ entity.paginationCapabilities = caps.pagination

KeyFieldWarning(typeName) ==
    [template |-> "Could not find key field for entity ${typeName} - skipping collection generation",
     typeName |-> typeName]

\* C30: discoverGraphQLEntities returns no two entities of one typeName;
\* each entity is the one of the first field of the Query type that lists
\* its type and has a matching operation; its keyField is a field of its
\* object type; and a listed type without a key field yields the warning
\* and no entity.
C30_OneEntityPerType ==
    pc = "discovered" =>
        /\ \A a, b \in DOMAIN entities :
              entities[a].typeName = entities[b].typeName => a = b
        /\ \A a \in DOMAIN entities :
              LET entity == entities[a]
                  fields == gqlSchema.queryType.fields
              IN /\ entity.typeName = toPascalCaseNaming(entity.name)
                 /\ \E k \in DOMAIN fields :
                       /\ IsListQueryOf(k, entity.name)
                       /\ \A j \in 1..(k - 1) : ~IsListQueryOf(j, entity.name)
                       /\ IsEntityOfField(entity, k)
                 /\ FieldGet(GetType(gqlSchema, entity.name), entity.keyField) # Undefined
        /\ gqlSchema.queryType # Null =>
              \A k \in DOMAIN gqlSchema.queryType.fields :
                  \A t \in DOMAIN gqlSchema.types :
                      LET typeName == gqlSchema.types[t].name
                      IN (IsListQueryOf(k, typeName) /\ ~HasKeyField(typeName)) =>
                            /\ \E w \in DOMAIN warnings : warnings[w] = KeyFieldWarning(typeName)
                            /\ \A a \in DOMAIN entities : entities[a].name # typeName

\* Two fields of the Query type list types of one typeName, and only the
\* entity of the first one is returned.
C30_Witness ==
    /\ pc = "discovered"
    /\ Len(listQueries) = 2
    /\ toPascalCaseNaming(listQueries[1].typeName) = toPascalCaseNaming(listQueries[2].typeName)
    /\ Len(entities) = 1
    /\ entities[1].listQuery.operationName = listQueries[1].operation.name
    /\ entities[1].listQuery.operationName # listQueries[2].operation.name

(***************************************************************************)
(* Properties of the emitters                                              *)
(***************************************************************************)
RECURSIVE NodeKinds(_), NodeKindsOfAll(_, _)

\* The kinds of the nodes of a schema, in the order the emitter meets them.
NodeKinds(schema) ==
    <<schema.kind>>
        \o (CASE schema.kind = "array" -> NodeKinds(schema.items)
              [] schema.kind = "union" -> NodeKindsOfAll(schema.members, 1)
              [] schema.kind = "object" ->
                    NodeKindsOfAll([k \in 1..Len(schema.properties) |->
                                       schema.properties[k].schema], 1)
              [] OTHER -> <<>>)

NodeKindsOfAll(list, k) ==
    IF k > Len(list) THEN <<>>
    ELSE NodeKinds(list[k]) \o NodeKindsOfAll(list, k + 1)

\* The unsupported kinds met in the entries from position k on.
UnsupportedKinds(list) ==
    SelectSeq(NodeKindsOfAll([k \in 1..Len(list) |-> list[k].schema], 1),
              LAMBDA kind : kind \notin SchemaIRKind)

\* The lines of entry k in the emitted module.
ConstLine(k) == emitResult.content[3 + 2 * k - 1]

TypeLine(k) == emitResult.content[3 + 2 * k]

HasToken(k, t) == TextToken(t) \in Range(ConstLine(k).code)

GraphQLNullable(k) ==
    /\ declarations[k].origin = "graphql"
    /\ ~declarations[k].fields[1].nonNull

OpenAPIOptionalOnly(k) ==
    /\ declarations[k].origin = "openapi"
    /\ ~declarations[k].parameters[1].required
    /\ ~declarations[k].parameters[1].nullable

\* C13: with Zod, a GraphQL input field without the non-null wrapper is
\* emitted with .nullish(), and an OpenAPI parameter with required: false
\* and no nullable is emitted without any null-accepting wrapper.
C13_OptionalIsNotNullish ==
    (pc = "emitted" /\ emitLibrary = "zod") =>
        \A k \in 1..Len(declarations) :
            /\ GraphQLNullable(k) => HasToken(k, ".nullish()")
            /\ OpenAPIOptionalOnly(k) =>
                  ~HasToken(k, ".nullish()") /\ ~HasToken(k, "z.null()")

\* C14: emit returns a result whatever the kinds of the nodes: every node of
\* a kind outside SchemaIRKind gives one warning, in the order met, its
\* place in the code is taken by the library's unknown schema, and every
\* entry of the list has its constant and its type alias.
C14_FallbackAndWarning ==
    pc = "emitted" =>
        /\ emitResult.warnings
              = [k \in 1..Len(UnsupportedKinds(emitSchemas)) |->
                    UnsupportedKindWarning(UnsupportedKinds(emitSchemas)[k])]
        /\ \A k \in 1..Len(emitSchemas) :
              /\ ConstLine(k).name = toSchemaName(emitSchemas[k].name)
              /\ TypeLine(k).name = emitSchemas[k].name
              /\ UnsupportedKinds(<<emitSchemas[k]>>) # <<>>
                    => HasToken(k, Syntax(emitLibrary).unknown)
              /\ UnsupportedKinds(<<emitSchemas[k]>>) = <<>>
                    => ConstLine(k).code = emitConstant(emitLibrary, emitSchemas[k].schema).code

\* A module of two entries, the first with a node the emitter cannot
\* represent, the second emitted as usual.
C14_Witness ==
    /\ pc = "emitted"
    /\ Len(emitSchemas) = 2
    /\ UnsupportedKinds(<<emitSchemas[1]>>) # <<>>
    /\ UnsupportedKinds(<<emitSchemas[2]>>) = <<>>
    /\ Len(emitResult.warnings) = 1
    /\ ConstLine(2).code # <<>>

(***************************************************************************)
(* Properties of the GraphQL type-name and schema-name families            *)
(***************************************************************************)

\* C26: for a non-empty operation or fragment name, the schema name of a
\* type name of a GraphQL family is the name the schema-name function of
\* the family gives.
C26_FamiliesAgree ==
    str # <<>> =>
        /\ pc = "schemaOfQueryVariablesTypeName" => out = toQueryVariablesSchemaName(str)
        /\ pc = "schemaOfMutationVariablesTypeName" => out = toMutationVariablesSchemaName(str)
        /\ pc = "schemaOfQueryResponseTypeName" => out = toQueryResponseSchemaName(str)
        /\ pc = "schemaOfMutationResponseTypeName" => out = toMutationResponseSchemaName(str)
        /\ pc = "schemaOfFragmentTypeName" => out = toFragmentSchemaName(str)

\* The name a-a has gone through toFragmentTypeName and toSchemaName.
C26_Witness ==
    /\ pc = "schemaOfFragmentTypeName"
    /\ str = <<"a", "-", "a">>
    /\ out = <<"a", "A", "F", "r", "a", "g", "m", "e", "n", "t", "S", "c", "h", "e", "m", "a">>

(***************************************************************************)
(* Properties of the init command                                          *)
(***************************************************************************)

\* The source type asked for is supported and the file is absent or
\* --force is set.
MayWrite ==
    /\ initArgs.source \in {"graphql", "openapi", "both"}
    /\ ~configOnDisk.exists \/ initArgs.force

\* The positions of run() from the call of writeFile on.
WritePcs == {"writeFile", "writing", "written", "done"}

\* C21: init writes tangen.config.ts only when the source type is one of
\* graphql, openapi, both and the file is absent or --force is set; in
\* every other case it reports an error, exits with code 1 and leaves the
\* file as it was, and the source type is tested before the file.
C21_InitWritesOnlyWhenAllowed ==
    /\ [][/\ pc = "ready" => (IF MayWrite THEN pc' = "writeFile" ELSE pc' = "exit")
          /\ pc' \in WritePcs => pc \in {"ready"} \cup WritePcs
          /\ configOnDisk' # configOnDisk =>
                /\ pc \in {"writeFile", "writing"}
                /\ initArgs.source \in {"graphql", "openapi", "both"}
                /\ configOnDisk'.exists
                /\ configOnDisk'.content \in {"", getConfigContent(initArgs.source)}
          /\ pc = "exit" => pc' = "exited" /\ initExitCode' = 1
       ]_vars
    /\ [](pc \in {"exit", "exited"} =>
             /\ ~MayWrite
             /\ Len(initLogs) = 1
             /\ initLogs[1].level = "error"
             /\ initArgs.source \notin {"graphql", "openapi", "both"} =>
                   initLogs[1].detail = <<initArgs.source>>)
    /\ [](pc = "exited" => initExitCode = 1)
    /\ [](pc \in WritePcs => initExitCode = Undefined)
    /\ [](pc \in {"written", "done"} =>
             configOnDisk = [exists |-> TRUE,
                             content |-> getConfigContent(initArgs.source)])

\* The command has exited with code 1 on an unsupported source type while
\* a configuration file exists and --force is not set.
C21_Witness ==
    /\ pc = "exited"
    /\ initExitCode = 1
    /\ initArgs.source \notin {"graphql", "openapi", "both"}
    /\ configOnDisk.exists /\ ~initArgs.force
    /\ initLogs[1].detail = <<initArgs.source>>

(***************************************************************************)
(* Properties of extractRestSimpleFilter                                   *)
(***************************************************************************)

\* C22: for a name made of a field name and a suffix of the REST-simple
\* list, extractRestSimpleFilter returns the field name and the suffix
\* without its underscore; for a name that ends with none of the suffixes
\* it returns the name and the operator eq.
C22_ExtractInvertsSuffix ==
    pc = "extracted" =>
        /\ \A k \in DOMAIN restSimpleOperatorSuffixes :
              \A n \in 0..Len(paramName) :
                  paramName = SubSeq(paramName, 1, n) \o restSimpleOperatorSuffixes[k]
                     => extracted = [field |-> SubSeq(paramName, 1, n),
                                     operator |-> Tail(restSimpleOperatorSuffixes[k])]
        /\ (\A k \in DOMAIN restSimpleOperatorSuffixes :
                ~EndsWith(paramName, restSimpleOperatorSuffixes[k]))
              => extracted = [field |-> paramName, operator |-> <<"e", "q">>]

\* The name is the field name _lt followed by the suffix _lte.
C22_Witness ==
    /\ pc = "extracted"
    /\ paramName = <<"_", "l", "t", "_", "l", "t", "e">>
    /\ extracted = [field |-> <<"_", "l", "t">>, operator |-> <<"l", "t", "e">>]

====
